---- MODULE Spec2Model ----
EXTENDS Integers, Sequences, FiniteSets, TLC

(***************************************************************************)
(* Model of the Decimal extension type of decimalfp                        *)
(* (src/src/decimalfp/_cdecimalfp.c) on top of the libfpdec engine.        *)
(*                                                                         *)
(* The machine widths are scaled down so that every value stays inside the *)
(* model checker's integers: a machine word has WORD_BITS bits (64 in the  *)
(* source), a base-RADIX digit holds DEC_DIGITS_PER_DIGIT decimal digits   *)
(* (19 in the source) and the largest precision is FPDEC_MAX_DEC_PREC.     *)
(* The proportions of the source are kept: RADIX < 2^WORD_BITS and         *)
(* RADIX^2 < 2^(2*WORD_BITS) < RADIX^3.                                    *)
(*                                                                         *)
(* The engine's kernels (fpdec_add, fpdec_divmod, the literal parser and   *)
(* formatter, ...) are not part of the sources at hand; they are modelled  *)
(* from the specification, on the mathematical value, and produce the      *)
(* normalised representation the specification describes.                  *)
(***************************************************************************)

VARIABLES
    opx,            \* the left operand: a Decimal object
    opy,            \* the right operand: a Decimal object or a host integer
    result,         \* what the last operation returned
    last_op,        \* the last operation
    dflt_rounding,  \* the process-wide default rounding mode
    errno           \* the C library's errno: the code of the last engine
                    \* call that failed, FPDEC_OK (0) when none has

vars == <<opx, opy, result, last_op, dflt_rounding, errno>>

\* ------------------------------------------------------------------------
\* Program constants (scaled)
\* ------------------------------------------------------------------------

\* decimal digits per base-RADIX digit (source: 19)
DEC_DIGITS_PER_DIGIT == 2

\* base of the digit array (source: 10^19)
RADIX == 10^DEC_DIGITS_PER_DIGIT

\* bits of a machine word (source: 64)
WORD_BITS == 7

\* 2^64 of the source, the divisor of PyLong_as_u128
Py2pow64 == 2^WORD_BITS

\* largest long long: PyLong_AsLongLong succeeds on [-LLONG_MAX-1, LLONG_MAX]
LLONG_MAX == 2^(WORD_BITS - 1) - 1

\* the "size_base_2 <= 96" threshold of fpdec_from_pylong: one and a half words
SHINT_MAX_BITS == (3 * WORD_BITS) \div 2

\* first magnitude that does not fit a 128-bit shifted int
U128_LIMIT == 2^(2 * WORD_BITS)

\* largest precision of a Decimal
FPDEC_MAX_DEC_PREC == 3

\* error codes of the engine
FPDEC_OK == "FPDEC_OK"
FPDEC_PREC_LIMIT_EXCEEDED == "FPDEC_PREC_LIMIT_EXCEEDED"
FPDEC_INVALID_DECIMAL_LITERAL == "FPDEC_INVALID_DECIMAL_LITERAL"
FPDEC_DIVIDE_BY_ZERO == "FPDEC_DIVIDE_BY_ZERO"

\* signs
FPDEC_SIGN_ZERO == 0
FPDEC_SIGN_NEG == 0 - 1
FPDEC_SIGN_POS == 1

\* ------------------------------------------------------------------------
\* Integer helpers (the host's arbitrary-size integers)
\* ------------------------------------------------------------------------

Abs(n) == IF n < 0 THEN -n ELSE n

Sgn(n) == IF n < 0 THEN -1 ELSE IF n > 0 THEN 1 ELSE 0

Max2(a, b) == IF a >= b THEN a ELSE b

Min2(a, b) == IF a <= b THEN a ELSE b

Pow10(n) == 10^n

\* F applied to the value v: names v within the expression F
With(v, F(_)) == F(v)

\* floor division and its remainder, as the host's // and %
FloorDiv(a, b) == IF b > 0 THEN a \div b ELSE (-a) \div (-b)

FloorMod(a, b) == a - b * FloorDiv(a, b)

RECURSIVE GCD(_, _)
GCD(a, b) == IF b = 0 THEN Abs(a) ELSE GCD(b, Abs(a) % Abs(b))

RECURSIVE BitLength(_)
BitLength(n) == IF n = 0 THEN 0 ELSE 1 + BitLength(n \div 2)

\* number of trailing decimal zeros of n > 0
RECURSIVE TrailingZeros(_)
TrailingZeros(n) == IF n % 10 # 0 THEN 0 ELSE 1 + TrailingZeros(n \div 10)

\* smallest k with d | 10^k, or -1 when d has a prime factor other than 2, 5
RECURSIVE Pow10Exp(_, _)
Pow10Exp(d, k) ==
    IF Pow10(k) % d = 0 THEN k
    ELSE IF k >= 9 THEN -1
    ELSE Pow10Exp(d, k + 1)

\* ------------------------------------------------------------------------
\* Base-RADIX digit arrays, least significant digit first
\* ------------------------------------------------------------------------

RECURSIVE ToDigits(_)
ToDigits(n) == IF n = 0 THEN <<>> ELSE <<n % RADIX>> \o ToDigits(n \div RADIX)

RECURSIVE FromDigits(_)
FromDigits(ds) ==
    IF ds = <<>> THEN 0 ELSE Head(ds) + RADIX * FromDigits(Tail(ds))

\* number of zero digits at the least significant end
RECURSIVE LowZeroDigits(_)
LowZeroDigits(ds) ==
    IF ds = <<>> \/ Head(ds) # 0 THEN 0 ELSE 1 + LowZeroDigits(Tail(ds))

\* ds without the zero digits at its most significant end
RECURSIVE TrimHigh(_)
TrimHigh(ds) ==
    IF ds = <<>> \/ ds[Len(ds)] # 0 THEN ds
    ELSE TrimHigh(SubSeq(ds, 1, Len(ds) - 1))

\* ------------------------------------------------------------------------
\* fpdec_t: the unified value
\* ------------------------------------------------------------------------

FPDEC_ZERO ==
    [dyn_alloc |-> FALSE, sign |-> 0, dec_prec |-> 0,
     lo |-> 0, hi |-> 0, digits |-> <<>>, exp |-> 0]

FPDEC_ONE ==
    [dyn_alloc |-> FALSE, sign |-> 1, dec_prec |-> 0,
     lo |-> 1, hi |-> 0, digits |-> <<>>, exp |-> 0]

FPDEC_IS_DYN_ALLOC(f) == f.dyn_alloc

FPDEC_SIGN(f) == f.sign

FPDEC_DEC_PREC(f) == f.dec_prec

FPDEC_EQ_ZERO(f) == f.sign = FPDEC_SIGN_ZERO

FPDEC_LT_ZERO(f) == f.sign = FPDEC_SIGN_NEG

\* the 128-bit magnitude of a shifted int
U128(f) == f.hi * Py2pow64 + f.lo

\* a shifted int of magnitude m
ShintOf(sign, m, p) ==
    [dyn_alloc |-> FALSE, sign |-> IF m = 0 THEN 0 ELSE sign, dec_prec |-> p,
     lo |-> m % Py2pow64, hi |-> m \div Py2pow64, digits |-> <<>>, exp |-> 0]

\* the normalised value c * 10^-p (c a signed coefficient): a shifted int
\* when the coefficient fits 128 bits, else a digit array whose zero digits
\* at both ends are trimmed (trailing ones into the exponent)
FpdecOf(c, p) ==
    LET units == (p + DEC_DIGITS_PER_DIGIT - 1) \div DEC_DIGITS_PER_DIGIT
        n == Abs(c) * Pow10(units * DEC_DIGITS_PER_DIGIT - p)
        ds == ToDigits(n)
        t == LowZeroDigits(ds)
    IN  IF Abs(c) < U128_LIMIT THEN ShintOf(Sgn(c), Abs(c), p)
        ELSE [dyn_alloc |-> TRUE, sign |-> Sgn(c), dec_prec |-> p,
              lo |-> 0, hi |-> 0,
              digits |-> SubSeq(ds, t + 1, Len(ds)), exp |-> t - units]

\* fpdec_from_sign_digits_exp: a precision-0 value from a digit buffer of
\* n_digits digits (unused high digits are zero) and a base-RADIX exponent
fpdec_from_sign_digits_exp(sign, n_digits, digits, exp) ==
    FpdecOf(sign * FromDigits(TrimHigh(SubSeq(digits, 1, n_digits)))
                 * RADIX^exp, 0)

\* the value of f times 10^p, for a p at which the value is an integer
CoeffAt(f, p) ==
    IF ~f.dyn_alloc
    THEN f.sign * U128(f) * Pow10(p - f.dec_prec)
    ELSE LET s == f.exp * DEC_DIGITS_PER_DIGIT + p
             n == FromDigits(f.digits)
         IN  IF s >= 0 THEN f.sign * n * Pow10(s)
             ELSE f.sign * (n \div Pow10(-s))

\* the signed coefficient of f at its own precision
Coeff(f) == CoeffAt(f, f.dec_prec)


\* ------------------------------------------------------------------------
\* Rounding kernel
\* ------------------------------------------------------------------------

FPDEC_ROUND_DEFAULT == 0
FPDEC_ROUND_05UP == 1
FPDEC_ROUND_CEILING == 2
FPDEC_ROUND_DOWN == 3
FPDEC_ROUND_FLOOR == 4
FPDEC_ROUND_HALF_DOWN == 5
FPDEC_ROUND_HALF_EVEN == 6
FPDEC_ROUND_HALF_UP == 7
FPDEC_ROUND_UP == 8
FPDEC_MAX_ROUNDING_MODE == 8

fpdec_get_default_rounding_mode == dflt_rounding

\* n / d (d > 0) rounded to an integer under the rounding mode
RoundQuot(n, d, rounding) ==
    LET mode == IF rounding = FPDEC_ROUND_DEFAULT
                THEN fpdec_get_default_rounding_mode ELSE rounding
        q == Abs(n) \div d
        r == Abs(n) % d
        away ==
            CASE mode = FPDEC_ROUND_05UP -> r # 0 /\ (q % 10) \in {0, 5}
              [] mode = FPDEC_ROUND_CEILING -> r # 0 /\ n > 0
              [] mode = FPDEC_ROUND_DOWN -> FALSE
              [] mode = FPDEC_ROUND_FLOOR -> r # 0 /\ n < 0
              [] mode = FPDEC_ROUND_HALF_DOWN -> 2 * r > d
              [] mode = FPDEC_ROUND_HALF_EVEN ->
                    2 * r > d \/ (2 * r = d /\ q % 2 = 1)
              [] mode = FPDEC_ROUND_HALF_UP -> 2 * r >= d
              [] OTHER -> r # 0
    IN  Sgn(n) * (IF away THEN q + 1 ELSE q)

\* ------------------------------------------------------------------------
\* Engine kernels, on the mathematical value.  Each returns
\* [rc, z] (and fpdec_divmod [rc, q, r]); z is zero unless rc is FPDEC_OK.
\* ------------------------------------------------------------------------

Failed(rc) == [rc |-> rc, z |-> FPDEC_ZERO]

fpdec_copy(f) == [rc |-> FPDEC_OK, z |-> f]

fpdec_from_long_long(l) == [rc |-> FPDEC_OK, z |-> FpdecOf(l, 0)]

\* the value of f at precision prec, rounded when digits are dropped
fpdec_adjusted(f, prec, rounding) ==
    IF prec > FPDEC_MAX_DEC_PREC THEN Failed(FPDEC_PREC_LIMIT_EXCEEDED)
    ELSE IF prec >= f.dec_prec
    THEN [rc |-> FPDEC_OK, z |-> FpdecOf(CoeffAt(f, prec), prec)]
    ELSE [rc |-> FPDEC_OK,
          z |-> FpdecOf(RoundQuot(Coeff(f), Pow10(f.dec_prec - prec),
                                  rounding), prec)]

fpdec_add(x, y) ==
    LET p == Max2(x.dec_prec, y.dec_prec)
    IN  [rc |-> FPDEC_OK, z |-> FpdecOf(CoeffAt(x, p) + CoeffAt(y, p), p)]

fpdec_sub(x, y) ==
    LET p == Max2(x.dec_prec, y.dec_prec)
    IN  [rc |-> FPDEC_OK, z |-> FpdecOf(CoeffAt(x, p) - CoeffAt(y, p), p)]

fpdec_mul(x, y) ==
    LET p == x.dec_prec + y.dec_prec
    IN  IF p > FPDEC_MAX_DEC_PREC THEN Failed(FPDEC_PREC_LIMIT_EXCEEDED)
        ELSE [rc |-> FPDEC_OK, z |-> FpdecOf(Coeff(x) * Coeff(y), p)]

fpdec_divmod(x, y) ==
    LET p == Max2(x.dec_prec, y.dec_prec)
        cx == CoeffAt(x, p)
        cy == CoeffAt(y, p)
        q == FloorDiv(cx, cy)
    IN  IF FPDEC_EQ_ZERO(y)
        THEN [rc |-> FPDEC_DIVIDE_BY_ZERO, q |-> FPDEC_ZERO, r |-> FPDEC_ZERO]
        ELSE [rc |-> FPDEC_OK, q |-> FpdecOf(q, 0),
              r |-> FpdecOf(cx - q * cy, p)]

\* x / y: with prec = -1 the exact quotient at the least precision that
\* holds it (at least px - py), failing when there is none up to the
\* precision limit; with prec >= 0 the quotient rounded to prec
fpdec_div(x, y, prec, rounding) ==
    LET s == Sgn(Coeff(y))
        n == s * Coeff(x) * Pow10(y.dec_prec)
        d == s * Coeff(y) * Pow10(x.dec_prec)
        g == GCD(n, d)
        k == Pow10Exp(d \div g, 0)
        p == Max2(k, Max2(0, x.dec_prec - y.dec_prec))
    IN  IF FPDEC_EQ_ZERO(y) THEN Failed(FPDEC_DIVIDE_BY_ZERO)
        ELSE IF prec = -1
        THEN IF k = -1 \/ k > FPDEC_MAX_DEC_PREC
             THEN Failed(FPDEC_PREC_LIMIT_EXCEEDED)
             ELSE [rc |-> FPDEC_OK,
                   z |-> FpdecOf((n \div g) * (Pow10(p) \div (d \div g)), p)]
        ELSE IF prec > FPDEC_MAX_DEC_PREC
        THEN Failed(FPDEC_PREC_LIMIT_EXCEEDED)
        ELSE [rc |-> FPDEC_OK,
              z |-> FpdecOf(RoundQuot(n * Pow10(prec), d, rounding), prec)]

\* -1, 0 or 1 as x is less than, equal to or greater than y
fpdec_compare(x, y) ==
    LET p == Max2(x.dec_prec, y.dec_prec)
        cx == CoeffAt(x, p)
        cy == CoeffAt(y, p)
    IN  IF x.sign # y.sign THEN (IF x.sign < y.sign THEN -1 ELSE 1)
        ELSE IF cx < cy THEN -1 ELSE IF cx > cy THEN 1 ELSE 0

\* the coefficient without its trailing decimal zeros and the decimal
\* exponent of a digit array, when that coefficient fits 128 bits (rc = 0);
\* the magnitude and -dec_prec of a shifted int
fpdec_as_sign_coeff128_exp(f) ==
    IF ~f.dyn_alloc
    THEN [rc |-> 0, sign |-> f.sign, coeff |-> U128(f), exp |-> -f.dec_prec]
    ELSE LET n == FromDigits(f.digits)
             t == TrailingZeros(n)
         IN  IF n \div Pow10(t) < U128_LIMIT
             THEN [rc |-> 0, sign |-> f.sign, coeff |-> n \div Pow10(t),
                   exp |-> f.exp * DEC_DIGITS_PER_DIGIT + t]
             ELSE [rc |-> -1, sign |-> f.sign, coeff |-> 0, exp |-> 0]


\* ------------------------------------------------------------------------
\* Decimal literals: strings are sequences of one-character strings
\* ------------------------------------------------------------------------

DigitChars == <<"0", "1", "2", "3", "4", "5", "6", "7", "8", "9">>

IsDigit(c) == \E i \in 1..10 : DigitChars[i] = c

DigitVal(c) == (CHOOSE i \in 1..10 : DigitChars[i] = c) - 1

IsSpace(c) == c = " "

\* first index >= i of s that holds no white space (Len(s) + 1 if none)
RECURSIVE SkipWs(_, _)
SkipWs(s, i) ==
    IF i > Len(s) \/ ~IsSpace(s[i]) THEN i ELSE SkipWs(s, i + 1)

\* number of digit characters of s from index i on
RECURSIVE CountDigits(_, _)
CountDigits(s, i) ==
    IF i > Len(s) \/ ~IsDigit(s[i]) THEN 0 ELSE 1 + CountDigits(s, i + 1)

\* the number written by the k digits of s from index i on
RECURSIVE NumOf(_, _, _)
NumOf(s, i, k) ==
    IF k = 0 THEN 0
    ELSE 10 * NumOf(s, i, k - 1) + DigitVal(s[i + k - 1])

IsSignAt(s, i) == i <= Len(s) /\ s[i] \in {"+", "-"}

\* -1 if s has a '-' at index i, else 1
SignAt(s, i) == IF i <= Len(s) /\ s[i] = "-" THEN -1 ELSE 1

\* the value sign * (I.F) * 10^E of a literal whose fraction F has nf digits
LiteralValue(sign, I, F, nf, E) ==
    IF Max2(0, nf - E) > FPDEC_MAX_DEC_PREC
    THEN Failed(FPDEC_PREC_LIMIT_EXCEEDED)
    ELSE [rc |-> FPDEC_OK,
          z |-> FpdecOf(sign * (I * Pow10(nf) + F) * Pow10(Max2(0, E - nf)),
                        Max2(0, nf - E))]

\* fpdec_from_unicode_literal: the value of a literal
\* [ws] [sign] (digits ['.' [digits]] | '.' digits) [(e|E) [sign] digits] [ws]
\* a: start of the sign, b: of the integer digits (ni of them), d: end of the
\* mantissa (nf fractional digits), f: start of the exponent's ne digits
fpdec_from_unicode_literal(s) ==
    With(SkipWs(s, 1), LAMBDA a :
    With(IF IsSignAt(s, a) THEN a + 1 ELSE a, LAMBDA b :
    With(CountDigits(s, b), LAMBDA ni :
    With(b + ni <= Len(s) /\ s[b + ni] = ".", LAMBDA hasDot :
    With(IF hasDot THEN CountDigits(s, b + ni + 1) ELSE 0, LAMBDA nf :
    With(IF hasDot THEN b + ni + 1 + nf ELSE b + ni, LAMBDA d :
    With(d <= Len(s) /\ s[d] \in {"e", "E"}, LAMBDA hasExp :
    With(IF IsSignAt(s, d + 1) THEN d + 2 ELSE d + 1, LAMBDA f :
    With(IF hasExp THEN CountDigits(s, f) ELSE 0, LAMBDA ne :
        IF ~(ni >= 1 \/ (hasDot /\ nf >= 1)) \/ (hasExp /\ ne = 0)
           \/ SkipWs(s, IF hasExp THEN f + ne ELSE d) # Len(s) + 1
        THEN Failed(FPDEC_INVALID_DECIMAL_LITERAL)
        ELSE LiteralValue(SignAt(s, a), NumOf(s, b, ni),
                          NumOf(s, b + ni + 1, nf), nf,
                          SignAt(s, d + 1) * NumOf(s, f, ne))
    )))))))))

\* the decimal digits of n >= 0
RECURSIVE DecStr(_)
DecStr(n) ==
    IF n < 10 THEN <<DigitChars[n + 1]>>
    ELSE DecStr(n \div 10) \o <<DigitChars[(n % 10) + 1]>>

\* the last k decimal digits of n, with leading zeros
RECURSIVE PadStr(_, _)
PadStr(n, k) ==
    IF k = 0 THEN <<>>
    ELSE PadStr(n \div 10, k - 1) \o <<DigitChars[(n % 10) + 1]>>

RECURSIVE StripZeros(_)
StripZeros(s) ==
    IF s = <<>> \/ s[Len(s)] # "0" THEN s
    ELSE StripZeros(SubSeq(s, 1, Len(s) - 1))

\* fpdec_as_ascii_literal: optional '-', the integer digits and, when there
\* are fractional digits to show, '.' and the fractional digits: dec_prec of
\* them, or without the trailing zeros when no_trailing_zeros
fpdec_as_ascii_literal(f, no_trailing_zeros) ==
    With(Abs(Coeff(f)), LAMBDA c :
    With(IF no_trailing_zeros
         THEN StripZeros(PadStr(c % Pow10(f.dec_prec), f.dec_prec))
         ELSE PadStr(c % Pow10(f.dec_prec), f.dec_prec), LAMBDA shown :
        (IF f.sign < 0 THEN <<"-">> ELSE <<>>)
        \o DecStr(c \div Pow10(f.dec_prec))
        \o (IF shown = <<>> THEN <<>> ELSE <<".">> \o shown)
    ))

\* ------------------------------------------------------------------------
\* Host objects.  One record shape for every object the extension takes or
\* returns: t is the type ("None", "int", "str", "Rational", "Fraction",
\* "float", "StdLibDecimal", "ROUNDING", "Decimal", "tuple", "bool",
\* "NotImplemented" or "error")
\* ------------------------------------------------------------------------

\* DecimalType_alloc: unset hash, no memoised ratio, the value zero
DecimalType_alloc ==
    [hash |-> -1, numerator |-> <<>>, denominator |-> <<>>,
     fpdec |-> FPDEC_ZERO]

PyObj(t) ==
    [t |-> t, i |-> 0, num |-> 0, den |-> 1, s |-> <<>>, b |-> FALSE,
     err |-> "", rt |-> "", rc |-> FPDEC_OK, dec |-> DecimalType_alloc]

Py_None == PyObj("None")

Py_NotImplemented == PyObj("NotImplemented")

PyLong(i) == [PyObj("int") EXCEPT !.i = i]

PyUnicode(s) == [PyObj("str") EXCEPT !.s = s]

PyBool(b) == [PyObj("bool") EXCEPT !.b = b]

\* an instance of numbers.Rational with the given numerator, denominator
PyRational(n, d) == [PyObj("Rational") EXCEPT !.num = n, !.den = d]

\* fractions.Fraction(n, d): in lowest terms with a positive denominator
Fraction(n, d) ==
    LET g == GCD(n, d)
    IN  [PyObj("Fraction") EXCEPT !.num = Sgn(d) * (n \div g),
                                  !.den = Abs(d) \div g]

PyDecimal(dec) == [PyObj("Decimal") EXCEPT !.dec = dec]

PyErr(e) == [PyObj("error") EXCEPT !.err = e]

\* a pair (quot, rem): quot an int, rem a Decimal or a Fraction
PyTuple_Pack(quot, rem) ==
    [rem EXCEPT !.t = "tuple", !.rt = rem.t, !.i = quot.i]

\* a float: the value n / d with d a power of two, or inf / nan
PyFloat(n, d, finite) ==
    [PyObj("float") EXCEPT !.num = n, !.den = d, !.b = finite]

\* complex(re / d, im / d) with d a power of two; if not finite, the real
\* part is inf, -inf or nan
PyComplex(re, im, d, finite) ==
    [PyObj("complex") EXCEPT !.num = re, !.i = im, !.den = d, !.b = finite]

\* c.real
PyComplex_real(c) == PyFloat(c.num, c.den, c.b)

\* decimal.Decimal: the value coeff * 10^exp, or Infinity / NaN
PyStdLibDecimal(coeff, exp, finite) ==
    [PyObj("StdLibDecimal") EXCEPT !.num = coeff, !.i = exp, !.b = finite]

\* val.as_integer_ratio() of a float or a decimal.Decimal: the pair in
\* lowest terms with a positive denominator; OverflowError for a value that
\* is not finite
as_integer_ratio(val) ==
    IF ~val.b THEN PyErr("OverflowError")
    ELSE IF val.num = 0 THEN PyRational(0, 1)
    ELSE IF val.t = "float"
    THEN PyRational(val.num \div GCD(val.num, val.den),
                    val.den \div GCD(val.num, val.den))
    ELSE LET n == val.num * Pow10(Max2(val.i, 0))
             d == Pow10(Max2(-val.i, 0))
         IN  PyRational(n \div GCD(n, d), d \div GCD(n, d))

\* bits of an int and of an unsigned int (source: 32)
INT_BITS == 5

\* (int)v of a long v: the value modulo 2^INT_BITS in the range of int
IntCast(v) ==
    LET m == v % 2^INT_BITS
    IN  IF m >= 2^(INT_BITS - 1) THEN m - 2^INT_BITS ELSE m

Decimal_Check(obj) == obj.t = "Decimal"

PyLong_Check(obj) == obj.t = "int"

IsError(obj) == obj.t = "error"

\* CHECK_FPDEC_ERROR: the exception raised for an engine error code
CHECK_FPDEC_ERROR(rc) ==
    [(CASE rc = FPDEC_PREC_LIMIT_EXCEEDED -> PyErr("ValueError")
        [] rc = FPDEC_INVALID_DECIMAL_LITERAL -> PyErr("ValueError")
        [] rc = FPDEC_DIVIDE_BY_ZERO -> PyErr("ZeroDivisionError")
        [] OTHER -> PyErr("SystemError")) EXCEPT !.rc = rc]

\* ERROR(err) of the engine: errno after a call that returned rc
ERROR(rc, e) == IF rc = FPDEC_OK THEN e ELSE rc

\* errno after a constructor returned res: the engine call behind an error
\* raised by CHECK_FPDEC_ERROR has set it
errno_after(res, e) == IF IsError(res) THEN ERROR(res.rc, e) ELSE e

\* ------------------------------------------------------------------------
\* Conversions between the engine's value and the host's integers
\* ------------------------------------------------------------------------

\* the loop of PyLong_from_digits: folds digits[idx] down to the second digit
RECURSIVE PyLong_from_digits_loop(_, _, _)
PyLong_from_digits_loop(digits, idx, acc) ==
    IF idx <= 1 THEN acc
    ELSE PyLong_from_digits_loop(digits, idx - 1, acc * RADIX + digits[idx])

\* the integer held by n_digits > 1 digits, without the n_dec_adjust
\* lowest decimal digits of the least significant digit
PyLong_from_digits(digits, n_digits, n_dec_adjust) ==
    LET res == PyLong_from_digits_loop(digits, n_digits - 1, digits[n_digits])
    IN  IF n_dec_adjust = 0 THEN res * RADIX + digits[1]
        ELSE res * Pow10(DEC_DIGITS_PER_DIGIT - n_dec_adjust)
             + digits[1] \div Pow10(n_dec_adjust)

PyLong_from_u128(lo, hi) == IF hi = 0 THEN lo ELSE hi * Py2pow64 + lo

\* the integral part of the value, truncated towards zero
PyLong_from_fpdec(fpdec) ==
    IF FPDEC_EQ_ZERO(fpdec) THEN 0
    ELSE IF FPDEC_IS_DYN_ALLOC(fpdec)
    THEN LET n_all == Len(fpdec.digits)
             exp0 == fpdec.exp
             n_digits == IF exp0 < 0 THEN n_all + exp0 ELSE n_all
             digits == IF exp0 < 0
                       THEN SubSeq(fpdec.digits, 1 - exp0, n_all)
                       ELSE fpdec.digits
             exp == IF exp0 < 0 THEN 0 ELSE exp0
             res == IF n_digits = 1 THEN digits[1]
                    ELSE PyLong_from_digits(digits, n_digits, 0)
             scaled == IF exp > 0 THEN res * Pow10(exp) ELSE res
         IN  IF -exp0 >= n_all THEN 0
             ELSE IF FPDEC_LT_ZERO(fpdec) THEN -scaled ELSE scaled
    ELSE LET prec == FPDEC_DEC_PREC(fpdec)
             shint == IF prec > 0 THEN U128(fpdec) \div Pow10(prec)
                      ELSE U128(fpdec)
             res == PyLong_from_u128(shint % Py2pow64, shint \div Py2pow64)
         IN  IF FPDEC_LT_ZERO(fpdec) THEN -res ELSE res

\* a count of trailing zeros that is one too many
n_trailing_zeros_plus(least_signif_digit) ==
    1 + TrailingZeros(least_signif_digit)

\* the least significant digit's trailing decimal zeros
RECURSIVE n_trailing_zeros(_)
n_trailing_zeros(least_signif_digit) ==
    IF least_signif_digit % 10 # 0 THEN 0
    ELSE 1 + n_trailing_zeros(least_signif_digit \div 10)

\* coefficient and decimal exponent: the value's magnitude is coeff * 10^exp
fpdec_dec_coeff_exp(fpdec) ==
    IF FPDEC_EQ_ZERO(fpdec) THEN [coeff |-> 0, exp |-> 0]
    ELSE With(fpdec_as_sign_coeff128_exp(fpdec), LAMBDA c128 :
         IF c128.rc = 0
         THEN [coeff |-> PyLong_from_u128(c128.coeff % Py2pow64,
                                          c128.coeff \div Py2pow64),
               exp |-> c128.exp]
         ELSE With(n_trailing_zeros(fpdec.digits[1]), LAMBDA ntz :
              [coeff |-> PyLong_from_digits(fpdec.digits, Len(fpdec.digits),
                                            ntz),
               exp |-> fpdec.exp * DEC_DIGITS_PER_DIGIT + ntz]))

\* numerator and denominator of the value
fpdec_as_integer_ratio(fpdec) ==
    With(fpdec_dec_coeff_exp(fpdec), LAMBDA ce :
    With(IF FPDEC_SIGN(fpdec) = FPDEC_SIGN_NEG THEN -ce.coeff ELSE ce.coeff,
         LAMBDA coeff :
        IF ce.exp = 0 THEN [numerator |-> coeff, denominator |-> 1]
        ELSE IF ce.exp > 0
        THEN [numerator |-> coeff * Pow10(ce.exp), denominator |-> 1]
        ELSE With(GCD(coeff, Pow10(-ce.exp)), LAMBDA gcd :
             [numerator |-> FloorDiv(coeff, gcd),
              denominator |-> FloorDiv(Pow10(-ce.exp), gcd)])
    ))

\* log10(2), as the ratio Log10Of2Num / Log10Of2Den
Log10Of2Num == 30103
Log10Of2Den == 100000

\* a number of digits that is rounded down
n_digits_needed_floor(n) ==
    (Log10Of2Num * n) \div (Log10Of2Den * DEC_DIGITS_PER_DIGIT)

\* digits base RADIX needed for an n-bit number: ceil(log10(2) * n / log10(RADIX))
n_digits_needed(n) ==
    (Log10Of2Num * n + Log10Of2Den * DEC_DIGITS_PER_DIGIT - 1)
        \div (Log10Of2Den * DEC_DIGITS_PER_DIGIT)

\* lo and hi word of val, for 0 <= val < 2^96
PyLong_as_u128(val) == [lo |-> val % Py2pow64, hi |-> val \div Py2pow64]

\* the number of digits PyLong_as_digit_array writes: one for each division
\* by RADIX until the quotient is 0
RECURSIVE n_digits_written(_)
n_digits_written(q) ==
    IF q > 0 THEN 1 + n_digits_written(q \div RADIX) ELSE 0

\* the zero-initialised buffer of n_digits digits after the digits of val have
\* been written from its start
PyLong_as_digit_array(n_digits, val) ==
    ToDigits(val) \o [k \in 1..(n_digits - Len(ToDigits(val))) |-> 0]

fpdec_from_pylong(val) ==
    IF val >= -LLONG_MAX - 1 /\ val <= LLONG_MAX
    THEN fpdec_from_long_long(val)
    ELSE With(Abs(val), LAMBDA abs_val :
         With(IF val < 0 THEN FPDEC_SIGN_NEG ELSE FPDEC_SIGN_POS, LAMBDA sign :
         With(BitLength(abs_val), LAMBDA size_base_2 :
            IF size_base_2 <= SHINT_MAX_BITS
            THEN [rc |-> FPDEC_OK,
                  z |-> [FPDEC_ZERO EXCEPT !.lo = PyLong_as_u128(abs_val).lo,
                                           !.hi = PyLong_as_u128(abs_val).hi,
                                           !.sign = sign]]
            ELSE With(n_digits_needed(size_base_2), LAMBDA n_digits :
                 [rc |-> FPDEC_OK,
                  z |-> fpdec_from_sign_digits_exp(
                            sign, n_digits,
                            PyLong_as_digit_array(n_digits, abs_val), 0)])
         )))

\* ------------------------------------------------------------------------
\* Constructors.  Each returns the new Decimal or the error raised
\* ------------------------------------------------------------------------

\* fpdec_adjust: fpdec_adjusted in place
fpdec_adjust(fpdec, prec, rounding) == fpdec_adjusted(fpdec, prec, rounding)

\* the new Decimal holding the engine's result r, or the error of r.rc
DecimalOrError(r) ==
    IF r.rc # FPDEC_OK THEN CHECK_FPDEC_ERROR(r.rc)
    ELSE PyDecimal([DecimalType_alloc EXCEPT !.fpdec = r.z])

\* a constructor that cuts the dropped digits off
DecimalType_from_fpdec_cut(fpdec, adjust_to_prec) ==
    DecimalOrError(fpdec_adjusted(fpdec, Max2(adjust_to_prec, 0),
                                  FPDEC_ROUND_DOWN))

DecimalType_from_fpdec(fpdec, adjust_to_prec) ==
    DecimalOrError(
        IF adjust_to_prec = -1 \/ adjust_to_prec = FPDEC_DEC_PREC(fpdec)
        THEN fpdec_copy(fpdec)
        ELSE fpdec_adjusted(fpdec, adjust_to_prec, FPDEC_ROUND_DEFAULT))

DecimalType_from_decimal(val, adjust_to_prec) ==
    IF adjust_to_prec = -1 \/ val.dec.fpdec.dec_prec = adjust_to_prec
    THEN val
    ELSE DecimalType_from_fpdec(val.dec.fpdec, adjust_to_prec)

\* the value r, when it was obtained, adjusted to the wanted precision
AdjustToPrec(r, adjust_to_prec) ==
    IF r.rc = FPDEC_OK /\ adjust_to_prec # -1
       /\ adjust_to_prec # FPDEC_DEC_PREC(r.z)
    THEN fpdec_adjust(r.z, adjust_to_prec, FPDEC_ROUND_DEFAULT)
    ELSE r

\* a constructor that takes whatever the parser left, whatever its code
DecimalType_from_str_unchecked(val, adjust_to_prec) ==
    PyDecimal([DecimalType_alloc EXCEPT
                   !.fpdec = fpdec_from_unicode_literal(val.s).z])

DecimalType_from_str(val, adjust_to_prec) ==
    DecimalOrError(AdjustToPrec(fpdec_from_unicode_literal(val.s),
                                adjust_to_prec))

DecimalType_from_pylong(val, adjust_to_prec) ==
    With(DecimalOrError(AdjustToPrec(fpdec_from_pylong(val.i),
                                     adjust_to_prec)), LAMBDA self :
        IF IsError(self) THEN self
        ELSE [self EXCEPT !.dec.numerator = <<val.i>>,
                          !.dec.denominator = <<1>>])

fpdec_from_num_den(numerator, denominator, adjust_to_prec) ==
    With(fpdec_from_pylong(numerator), LAMBDA num :
    With(fpdec_from_pylong(denominator), LAMBDA den :
        IF num.rc # FPDEC_OK THEN Failed(num.rc)
        ELSE IF den.rc # FPDEC_OK THEN Failed(den.rc)
        ELSE fpdec_div(num.z, den.z, IntCast(adjust_to_prec),
                       FPDEC_ROUND_DEFAULT)
    ))

DecimalType_from_num_den(numerator, denominator, adjust_to_prec) ==
    With(DecimalOrError(fpdec_from_num_den(numerator, denominator,
                                           adjust_to_prec)), LAMBDA self :
        IF IsError(self) \/ adjust_to_prec # -1 THEN self
        ELSE [self EXCEPT !.dec.numerator = <<numerator>>,
                          !.dec.denominator = <<denominator>>])

DecimalType_from_rational(val, adjust_to_prec) ==
    DecimalType_from_num_den(val.num, val.den, adjust_to_prec)

\* a ValueError, OverflowError or AttributeError of the conversion becomes
\* the ValueError "Can't convert"
DecimalType_from_float(val, adjust_to_prec) ==
    With(as_integer_ratio(val), LAMBDA ratio :
    With(IF IsError(ratio) THEN ratio
         ELSE DecimalType_from_num_den(ratio.num, ratio.den, adjust_to_prec),
         LAMBDA dec :
        IF IsError(dec)
           /\ dec.err \in {"ValueError", "OverflowError", "AttributeError"}
        THEN [dec EXCEPT !.err = "ValueError"]
        ELSE dec
    ))

\* without a wanted precision the precision is the number of fractional
\* digits of the value: MAX(0, -exp)
DecimalType_from_stdlib_decimal(val, adjust_to_prec) ==
    IF ~val.b THEN PyErr("ValueError")
    ELSE DecimalType_from_float(val, IF adjust_to_prec = -1
                                     THEN Max2(0, -val.i)
                                     ELSE adjust_to_prec)

DecimalType_from_obj(obj, adjust_to_prec) ==
    CASE obj.t = "None" ->
            PyDecimal([DecimalType_alloc EXCEPT
                           !.fpdec.dec_prec = Max2(0, adjust_to_prec),
                           !.numerator = <<0>>,
                           !.denominator = <<1>>])
      [] Decimal_Check(obj) -> DecimalType_from_decimal(obj, adjust_to_prec)
      [] obj.t = "str" -> DecimalType_from_str(obj, adjust_to_prec)
      [] PyLong_Check(obj) -> DecimalType_from_pylong(obj, adjust_to_prec)
      [] obj.t \in {"Rational", "Fraction"} ->
            DecimalType_from_rational(obj, adjust_to_prec)
      [] obj.t = "StdLibDecimal" ->
            DecimalType_from_stdlib_decimal(obj, adjust_to_prec)
      [] obj.t = "float" -> DecimalType_from_float(obj, adjust_to_prec)
      [] OTHER -> PyErr("TypeError")

\* PyLong_AsLong: -1 (with OverflowError set) beyond the range of long
PyLong_AsLong(v) == IF v > LLONG_MAX \/ v < -LLONG_MAX - 1 THEN -1 ELSE v

\* a constructor that takes any precision it is given
DecimalType_new_unchecked(value, precision) ==
    DecimalType_from_obj(value, IF precision = <<>> THEN -1
                                ELSE precision[1])

\* Decimal(value, precision); precision is <<>> when not given
DecimalType_new(value, precision) ==
    IF precision # <<>> /\ PyLong_AsLong(precision[1]) < 0
    THEN PyErr("ValueError")
    ELSE IF precision # <<>>
            /\ PyLong_AsLong(precision[1]) > FPDEC_MAX_DEC_PREC
    THEN PyErr("ValueError")
    ELSE DecimalType_from_obj(value, IF precision = <<>> THEN -1
                                     ELSE PyLong_AsLong(precision[1]))

\* ------------------------------------------------------------------------
\* Properties and special methods.  A method that may memoise returns
\* [self, val]: the object after the call and the value returned
\* ------------------------------------------------------------------------

Decimal_precision_get(self) == FPDEC_DEC_PREC(self.fpdec)

\* self with the ratio r memoised
Memoised(self, r) ==
    [self EXCEPT !.numerator = <<r.numerator>>,
                 !.denominator = <<r.denominator>>]

Decimal_numerator_get(self) ==
    IF self.numerator = <<>>
    THEN With(fpdec_as_integer_ratio(self.fpdec), LAMBDA r :
         [self |-> Memoised(self, r), val |-> r.numerator])
    ELSE [self |-> self, val |-> self.numerator[1]]

\* a getter that computes and stores the pair on every call
Decimal_denominator_get_fresh(self) ==
    With(fpdec_as_integer_ratio(self.fpdec), LAMBDA r :
        [self |-> Memoised(self, r), val |-> r.denominator])

Decimal_denominator_get(self) ==
    IF self.denominator = <<>>
    THEN With(fpdec_as_integer_ratio(self.fpdec), LAMBDA r :
         [self |-> Memoised(self, r), val |-> r.denominator])
    ELSE [self |-> self, val |-> self.denominator[1]]

Decimal_as_fraction(self) ==
    With(Decimal_numerator_get(self), LAMBDA num :
        [self |-> num.self,
         val |-> Fraction(num.val, Decimal_denominator_get(num.self).val)])

\* a str that drops the trailing fractional zeros
Decimal_str_stripped(self) ==
    PyUnicode(fpdec_as_ascii_literal(self.fpdec, TRUE))

Decimal_str(self) == PyUnicode(fpdec_as_ascii_literal(self.fpdec, FALSE))

\* index of the last '.' of lit, 0 if there is none (strrchr)
RECURSIVE strrchr_point(_, _)
strrchr_point(lit, i) ==
    IF i = 0 \/ lit[i] = "." THEN i ELSE strrchr_point(lit, i - 1)

\* PyUnicode_FromFormat of "Decimal(%s)", "Decimal('%s')" and the two
\* formats with ", %u"
Decimal_repr_format(lit, quoted, prec) ==
    <<"D", "e", "c", "i", "m", "a", "l", "(">>
    \o (IF quoted THEN <<"'">> \o lit \o <<"'">> ELSE lit)
    \o (IF prec = <<>> THEN <<>> ELSE <<",", " ">> \o DecStr(prec[1]))
    \o <<")">>

\* a repr that never writes the precision
Decimal_repr_bare(self) ==
    With(fpdec_as_ascii_literal(self.fpdec, TRUE), LAMBDA lit :
        PyUnicode(Decimal_repr_format(
            lit, strrchr_point(lit, Len(lit)) # 0, <<>>)))

Decimal_repr(self) ==
    With(fpdec_as_ascii_literal(self.fpdec, TRUE), LAMBDA lit :
    With(strrchr_point(lit, Len(lit)), LAMBDA radix_point :
    With(IF radix_point = 0 THEN 0 ELSE Len(lit) - radix_point,
         LAMBDA n_frac_digits :
        PyUnicode(Decimal_repr_format(
            lit, n_frac_digits # 0,
            IF n_frac_digits = FPDEC_DEC_PREC(self.fpdec) THEN <<>>
            ELSE <<FPDEC_DEC_PREC(self.fpdec)>>))
    )))

\* the host's hash of integers and fractions, modulo the prime PyHASH_MODULUS
PyHASH_MODULUS == 127
PyHASH_INF == 314159

PyHASH_inverse(d) ==
    IF d % PyHASH_MODULUS = 0 THEN 0
    ELSE CHOOSE i \in 1..(PyHASH_MODULUS - 1) :
            ((d % PyHASH_MODULUS) * i) % PyHASH_MODULUS = 1

\* the hash of the fraction n / d in lowest terms (of the integer n for d = 1)
PyHASH_of(n, d) ==
    With(PyHASH_inverse(d), LAMBDA dinv :
    With(IF dinv = 0 THEN PyHASH_INF
         ELSE ((Abs(n) % PyHASH_MODULUS) * dinv) % PyHASH_MODULUS, LAMBDA h :
        IF n >= 0 THEN h ELSE IF h = 1 THEN -2 ELSE -h
    ))

PyObject_Hash(obj) ==
    IF obj.t = "int" THEN PyHASH_of(obj.i, 1) ELSE PyHASH_of(obj.num, obj.den)

\* a hash of the coefficient, whatever the precision
Decimal_hash_of_coeff(self) ==
    IF self.hash # -1 THEN [self |-> self, val |-> self.hash]
    ELSE With(PyObject_Hash(PyLong(Coeff(self.fpdec))), LAMBDA h :
         [self |-> [self EXCEPT !.hash = h], val |-> h])

Decimal_hash(self) ==
    IF self.hash # -1 THEN [self |-> self, val |-> self.hash]
    ELSE With(Decimal_denominator_get(self), LAMBDA den :
         With(IF den.val = 1
              THEN PyObject_Hash(PyLong(Decimal_numerator_get(den.self).val))
              ELSE PyObject_Hash(Decimal_as_fraction(den.self).val),
              LAMBDA h :
            [self |-> [den.self EXCEPT !.hash = h], val |-> h]
         ))

\* Py_RETURN_RICHCOMPARE / PyObject_RichCompare on integers
Py_RICHCOMPARE(a, b, op) ==
    CASE op = "Py_LT" -> a < b
      [] op = "Py_LE" -> a <= b
      [] op = "Py_EQ" -> a = b
      [] op = "Py_NE" -> a # b
      [] op = "Py_GT" -> a > b
      [] OTHER -> a >= b

Decimal_cmp_to_int(x, y, op) ==
    With(Decimal_numerator_get(x), LAMBDA num :
    With(Decimal_denominator_get(num.self), LAMBDA den :
        [self |-> den.self,
         val |-> PyBool(Py_RICHCOMPARE(num.val, y * den.val, op))]
    ))

Decimal_cmp_to_ratio(x, y_num, y_den, op) ==
    With(Decimal_numerator_get(x), LAMBDA x_num :
    With(Decimal_denominator_get(x_num.self), LAMBDA x_den :
        [self |-> x_den.self,
         val |-> PyBool(Py_RICHCOMPARE(x_num.val * y_den, y_num * x_den.val,
                                       op))]
    ))

\* the host's comparison of the Fraction t with the rational other
Fraction_richcompare(t, other, op) ==
    PyBool(Py_RICHCOMPARE(t.num * other.den, t.den * other.num, op))

\* PyObject_RichCompare(PyZERO, other, op) for a float that is inf (num > 0),
\* -inf (num < 0) or nan (num = 0)
PyZERO_richcompare(other, op) ==
    PyBool(IF other.num = 0 THEN op = "Py_NE"
           ELSE Py_RICHCOMPARE(0, Sgn(other.num), op))

\* PyObject_RichCompareBool(imag, PyZERO, Py_EQ) for the imaginary part of
\* the complex number other
imag_is_zero(other) == other.i = 0

\* a comparison with a complex number that answers without looking at it
Decimal_richcompare_complex_blind(self, other, op) ==
    [self |-> self, val |-> PyBool(op = "Py_EQ")]

RECURSIVE Decimal_richcompare(_, _, _)

\* the branch of Decimal_richcompare for instances of numbers.Complex
Decimal_richcompare_complex(self, other, op) ==
    IF op \in {"Py_EQ", "Py_NE"}
    THEN IF imag_is_zero(other)
         THEN Decimal_richcompare(self, PyComplex_real(other), op)
         ELSE [self |-> self, val |-> PyBool(op # "Py_EQ")]
    ELSE [self |-> self, val |-> Py_NotImplemented]

Decimal_richcompare(self, other, op) ==
    CASE Decimal_Check(other) ->
            [self |-> self,
             val |-> PyBool(Py_RICHCOMPARE(
                         fpdec_compare(self.fpdec, other.dec.fpdec), 0, op))]
      [] PyLong_Check(other) -> Decimal_cmp_to_int(self, other.i, op)
      [] other.t \in {"Rational", "Fraction"} ->
            With(Decimal_as_fraction(self), LAMBDA t :
                [self |-> t.self,
                 val |-> Fraction_richcompare(t.val, other, op)])
      [] other.t \in {"float", "StdLibDecimal"} ->
            With(as_integer_ratio(other), LAMBDA t :
                IF t.t = "error"
                THEN [self |-> self, val |-> PyZERO_richcompare(other, op)]
                ELSE Decimal_cmp_to_ratio(self, t.num, t.den, op))
      [] other.t = "complex" -> Decimal_richcompare_complex(self, other, op)
      [] OTHER -> [self |-> self, val |-> Py_NotImplemented]

\* ------------------------------------------------------------------------
\* Unary number methods
\* ------------------------------------------------------------------------

\* a negation that returns its operand
Decimal_neg_unflipped(x) == x

Decimal_neg(x) ==
    IF FPDEC_EQ_ZERO(x.dec.fpdec) THEN x
    ELSE PyDecimal([DecimalType_alloc EXCEPT
                        !.fpdec = [fpdec_copy(x.dec.fpdec).z EXCEPT
                                       !.sign = -x.dec.fpdec.sign]])

Decimal_pos(x) == x

\* an abs that returns its operand
Decimal_abs_same(x) == x

Decimal_abs(x) ==
    IF FPDEC_SIGN(x.dec.fpdec) # FPDEC_SIGN_NEG THEN x
    ELSE PyDecimal([DecimalType_alloc EXCEPT
                        !.fpdec = [fpdec_copy(x.dec.fpdec).z EXCEPT
                                       !.sign = 1]])

Decimal_int(x) == PyLong(PyLong_from_fpdec(x.dec.fpdec))

\* ------------------------------------------------------------------------
\* Binary number methods.  Each returns [x, y, val]: the operands after the
\* call (a fallback memoises their ratios) and the value returned
\* ------------------------------------------------------------------------

IsNumber(obj) == obj.t \in {"int", "Rational", "Fraction", "Decimal"}

\* the operand's value as an engine value: [ok, z], ok FALSE for NULL
fpdec_from_obj(obj) ==
    CASE Decimal_Check(obj) ->
            [ok |-> TRUE, z |-> obj.dec.fpdec, rc |-> FPDEC_OK]
      [] PyLong_Check(obj) ->
            With(fpdec_from_pylong(obj.i), LAMBDA l :
                [ok |-> l.rc = FPDEC_OK, z |-> l.z, rc |-> l.rc])
      [] obj.t \in {"Rational", "Fraction"} ->
            With(fpdec_from_num_den(obj.num, obj.den, -1), LAMBDA q :
                [ok |-> q.rc = FPDEC_OK, z |-> q.z, rc |-> q.rc])
      [] OTHER -> [ok |-> FALSE, z |-> FPDEC_ZERO, rc |-> FPDEC_OK]

\* the host's Fraction(obj, None): [obj, val], obj after its ratio was read
Fraction_from(obj) ==
    CASE Decimal_Check(obj) ->
            With(Decimal_numerator_get(obj.dec), LAMBDA num :
            With(Decimal_denominator_get(num.self), LAMBDA den :
                [obj |-> [obj EXCEPT !.dec = den.self],
                 val |-> [PyObj("Fraction") EXCEPT !.num = num.val,
                                                   !.den = den.val]]
            ))
      [] PyLong_Check(obj) -> [obj |-> obj, val |-> Fraction(obj.i, 1)]
      [] obj.t \in {"Rational", "Fraction"} ->
            [obj |-> obj,
             val |-> [PyObj("Fraction") EXCEPT !.num = obj.num,
                                               !.den = obj.den]]
      [] OTHER -> [obj |-> obj, val |-> PyErr("TypeError")]

\* the host's arithmetic on two Fractions
PyNumber_Add(a, b) == Fraction(a.num * b.den + b.num * a.den, a.den * b.den)

PyNumber_Subtract(a, b) ==
    Fraction(a.num * b.den - b.num * a.den, a.den * b.den)

PyNumber_Multiply(a, b) == Fraction(a.num * b.num, a.den * b.den)

PyNumber_TrueDivide(a, b) ==
    IF b.num = 0 THEN PyErr("ZeroDivisionError")
    ELSE Fraction(a.num * b.den, a.den * b.num)

PyNumber_FloorDivide(a, b) ==
    IF b.num = 0 THEN PyErr("ZeroDivisionError")
    ELSE PyLong(FloorDiv(a.num * b.den, a.den * b.num))

PyNumber_Remainder(a, b) ==
    IF b.num = 0 THEN PyErr("ZeroDivisionError")
    ELSE Fraction(FloorMod(a.num * b.den, b.num * a.den), a.den * b.den)

PyNumber_Divmod(a, b) ==
    IF b.num = 0 THEN PyErr("ZeroDivisionError")
    ELSE PyTuple_Pack(PyNumber_FloorDivide(a, b), PyNumber_Remainder(a, b))

PyNumber_BinaryOp(a, b, op) ==
    CASE op = "PyNumber_Add" -> PyNumber_Add(a, b)
      [] op = "PyNumber_Subtract" -> PyNumber_Subtract(a, b)
      [] op = "PyNumber_Multiply" -> PyNumber_Multiply(a, b)
      [] op = "PyNumber_TrueDivide" -> PyNumber_TrueDivide(a, b)
      [] op = "PyNumber_FloorDivide" -> PyNumber_FloorDivide(a, b)
      [] op = "PyNumber_Remainder" -> PyNumber_Remainder(a, b)
      [] OTHER -> PyNumber_Divmod(a, b)

\* a fallback that clears the host's error and returns NotImplemented
fallback_op_unchecked(x, y, op) ==
    With(PyNumber_BinaryOp(Fraction_from(x).val, Fraction_from(y).val, op),
         LAMBDA res :
        [x |-> x, y |-> y,
         val |-> IF IsError(res) THEN Py_NotImplemented ELSE res])

fallback_op(x, y, op) ==
    With(Fraction_from(x), LAMBDA fx :
        IF IsError(fx.val) THEN [x |-> x, y |-> y, val |-> fx.val]
        ELSE With(Fraction_from(y), LAMBDA fy :
             IF IsError(fy.val) THEN [x |-> fx.obj, y |-> y, val |-> fy.val]
             ELSE [x |-> fx.obj, y |-> fy.obj,
                   val |-> PyNumber_BinaryOp(fx.val, fy.val, op)]))

fallback_n_convert_op(x, y, op) ==
    With(fallback_op(x, y, op), LAMBDA res :
        IF IsError(res.val) THEN res
        ELSE With(DecimalType_from_rational(res.val, -1), LAMBDA dec :
             IF IsError(dec) THEN res ELSE [res EXCEPT !.val = dec]))

\* CONVERT_AND_CHECK on both operands, converted to fpx and fpy:
\* "ok", "FALLBACK" or "NotImplemented"
CONVERT_AND_CHECK(x, fpx, y, fpy) ==
    IF ~fpx.ok
    THEN (IF IsNumber(x) THEN "FALLBACK" ELSE "NotImplemented")
    ELSE IF ~fpy.ok
    THEN (IF IsNumber(y) THEN "FALLBACK" ELSE "NotImplemented")
    ELSE "ok"

\* BINOP_ALLOC_RESULT: the result object holding the engine's result
BINOP_ALLOC_RESULT(z) == PyDecimal([DecimalType_alloc EXCEPT !.fpdec = z])

\* the common frame of the binary methods: conv is the outcome of
\* CONVERT_AND_CHECK, rc the engine's return code, res the result object
\* for rc = FPDEC_OK, fallback the operation of the FALLBACK label
BINOP(x, y, conv, rc, res, fallback) ==
    IF conv = "NotImplemented"
    THEN [x |-> x, y |-> y, val |-> Py_NotImplemented]
    ELSE IF conv = "ok" /\ rc = FPDEC_OK
    THEN [x |-> x, y |-> y, val |-> res]
    ELSE fallback

Decimal_add(x, y) ==
    With(fpdec_from_obj(x), LAMBDA fpx :
    With(fpdec_from_obj(y), LAMBDA fpy :
    With(fpdec_add(fpx.z, fpy.z), LAMBDA r :
        BINOP(x, y, CONVERT_AND_CHECK(x, fpx, y, fpy), r.rc,
              BINOP_ALLOC_RESULT(r.z),
              fallback_n_convert_op(x, y, "PyNumber_Add"))
    )))

Decimal_sub(x, y) ==
    With(fpdec_from_obj(x), LAMBDA fpx :
    With(fpdec_from_obj(y), LAMBDA fpy :
    With(fpdec_sub(fpx.z, fpy.z), LAMBDA r :
        BINOP(x, y, CONVERT_AND_CHECK(x, fpx, y, fpy), r.rc,
              BINOP_ALLOC_RESULT(r.z),
              fallback_n_convert_op(x, y, "PyNumber_Subtract"))
    )))

Decimal_mul(x, y) ==
    With(fpdec_from_obj(x), LAMBDA fpx :
    With(fpdec_from_obj(y), LAMBDA fpy :
    With(fpdec_mul(fpx.z, fpy.z), LAMBDA r :
        BINOP(x, y, CONVERT_AND_CHECK(x, fpx, y, fpy), r.rc,
              BINOP_ALLOC_RESULT(r.z),
              fallback_n_convert_op(x, y, "PyNumber_Multiply"))
    )))

Decimal_remainder(x, y) ==
    With(fpdec_from_obj(x), LAMBDA fpx :
    With(fpdec_from_obj(y), LAMBDA fpy :
    With(fpdec_divmod(fpx.z, fpy.z), LAMBDA r :
        BINOP(x, y, CONVERT_AND_CHECK(x, fpx, y, fpy), r.rc,
              BINOP_ALLOC_RESULT(r.r),
              fallback_n_convert_op(x, y, "PyNumber_Remainder"))
    )))

Decimal_divmod(x, y) ==
    With(fpdec_from_obj(x), LAMBDA fpx :
    With(fpdec_from_obj(y), LAMBDA fpy :
    With(fpdec_divmod(fpx.z, fpy.z), LAMBDA r :
        BINOP(x, y, CONVERT_AND_CHECK(x, fpx, y, fpy), r.rc,
              PyTuple_Pack(PyLong(PyLong_from_fpdec(r.q)),
                           DecimalType_from_fpdec(r.r, -1)),
              fallback_op(x, y, "PyNumber_Divmod"))
    )))

Decimal_floordiv(x, y) ==
    With(fpdec_from_obj(x), LAMBDA fpx :
    With(fpdec_from_obj(y), LAMBDA fpy :
    With(fpdec_divmod(fpx.z, fpy.z), LAMBDA r :
        BINOP(x, y, CONVERT_AND_CHECK(x, fpx, y, fpy), r.rc,
              PyLong(PyLong_from_fpdec(r.q)),
              fallback_op(x, y, "PyNumber_FloorDivide"))
    )))

\* a division that returns the quotient rounded down to an integer
Decimal_truediv_floored(x, y) ==
    With(fpdec_divmod(fpdec_from_obj(x).z, fpdec_from_obj(y).z), LAMBDA r :
        [x |-> x, y |-> y,
         val |-> IF r.rc = FPDEC_OK THEN BINOP_ALLOC_RESULT(r.q)
                 ELSE PyErr("ZeroDivisionError")])

Decimal_truediv(x, y) ==
    With(fpdec_from_obj(x), LAMBDA fpx :
    With(fpdec_from_obj(y), LAMBDA fpy :
    With(fpdec_div(fpx.z, fpy.z, -1, FPDEC_ROUND_DEFAULT), LAMBDA r :
        BINOP(x, y, CONVERT_AND_CHECK(x, fpx, y, fpy), r.rc,
              BINOP_ALLOC_RESULT(r.z),
              fallback_n_convert_op(x, y, "PyNumber_TrueDivide"))
    )))


\* the return code of the engine function a binary method calls
BINOP_rc(fpx, fpy, op) ==
    CASE op = "PyNumber_Add" -> fpdec_add(fpx, fpy).rc
      [] op = "PyNumber_Subtract" -> fpdec_sub(fpx, fpy).rc
      [] op = "PyNumber_Multiply" -> fpdec_mul(fpx, fpy).rc
      [] op = "PyNumber_TrueDivide" ->
            fpdec_div(fpx, fpy, -1, FPDEC_ROUND_DEFAULT).rc
      [] OTHER -> fpdec_divmod(fpx, fpy).rc

\* errno after a binary method: set by the first engine call that fails
\* (a conversion of an operand or the operation), which sends the method
\* to FALLBACK, and again when the conversion of the fallback's result to
\* a Decimal fails
BINOP_errno(x, y, op, e) ==
    With(fpdec_from_obj(x), LAMBDA fpx :
    With(fpdec_from_obj(y), LAMBDA fpy :
    With(IF ~fpx.ok THEN fpx.rc
         ELSE IF ~fpy.ok THEN fpy.rc
         ELSE BINOP_rc(fpx.z, fpy.z, op), LAMBDA rc :
    With(IF op \in {"PyNumber_FloorDivide", "PyNumber_Divmod"}
         THEN fallback_op(x, y, op).val
         ELSE fallback_n_convert_op(x, y, op).val, LAMBDA res :
        IF fpx.ok /\ fpy.ok /\ rc = FPDEC_OK THEN e
        ELSE IF (~fpx.ok /\ ~IsNumber(x)) \/ (fpx.ok /\ ~fpy.ok /\ ~IsNumber(y))
        THEN ERROR(rc, e)
        ELSE IF op \in {"PyNumber_FloorDivide", "PyNumber_Divmod"}
                \/ IsError(res) \/ Decimal_Check(res)
        THEN ERROR(rc, e)
        ELSE ERROR(fpdec_from_num_den(res.num, res.den, -1).rc, ERROR(rc, e))
    ))))

\* fpdec_reset_to_zero: the value zero with the given precision, the digit
\* array released
fpdec_reset_to_zero(fpdec, dec_prec) ==
    [FPDEC_ZERO EXCEPT !.dec_prec = dec_prec]

\* the temporaries tmp_x, tmp_y, q and r of a binary method when it reaches
\* CLEAN_UP: tmp_x and tmp_y hold the converted operand unless the operand
\* is a Decimal, y is converted only after x was, q and r are written by
\* fpdec_divmod (the remainder of Decimal_remainder goes to the result)
BINOP_temporaries(x, y, method) ==
    With(fpdec_from_obj(x), LAMBDA fpx :
    With(fpdec_from_obj(y), LAMBDA fpy :
    With(IF fpx.ok /\ fpy.ok /\ method \in {"mod", "divmod", "floordiv"}
         THEN fpdec_divmod(fpx.z, fpy.z)
         ELSE [rc |-> FPDEC_OK, q |-> FPDEC_ZERO, r |-> FPDEC_ZERO],
         LAMBDA dm :
        [tmp_x |-> IF Decimal_Check(x) THEN FPDEC_ZERO ELSE fpx.z,
         tmp_y |-> IF Decimal_Check(y) \/ ~fpx.ok THEN FPDEC_ZERO ELSE fpy.z,
         q |-> dm.q,
         r |-> IF method = "mod" THEN FPDEC_ZERO ELSE dm.r]
    )))

\* a CLEAN_UP that resets all four temporaries
CLEAN_UP_all(t, method) ==
    [tmp_x |-> fpdec_reset_to_zero(t.tmp_x, 0),
     tmp_y |-> fpdec_reset_to_zero(t.tmp_y, 0),
     q |-> fpdec_reset_to_zero(t.q, 0),
     r |-> fpdec_reset_to_zero(t.r, 0)]

\* the temporaries after the CLEAN_UP label of the method: Decimal_add,
\* Decimal_sub, Decimal_mul and Decimal_truediv declare and reset tmp_x and
\* tmp_y, Decimal_remainder also q, Decimal_divmod also q and r,
\* Decimal_floordiv declares q and r and resets r
CLEAN_UP(t, method) ==
    [tmp_x |-> fpdec_reset_to_zero(t.tmp_x, 0),
     tmp_y |-> fpdec_reset_to_zero(t.tmp_y, 0),
     q |-> IF method = "floordiv" THEN t.q ELSE fpdec_reset_to_zero(t.q, 0),
     r |-> fpdec_reset_to_zero(t.r, 0)]

\* ------------------------------------------------------------------------
\* The ROUNDING enum and the default rounding mode
\* ------------------------------------------------------------------------

UINT_MAX == 2^INT_BITS - 1

\* the member of the enum ROUNDING with the given value
PyRounding(value) == [PyObj("ROUNDING") EXCEPT !.i = value]

\* the members of ROUNDING: ROUND_05UP .. ROUND_UP
EnumRounding == {PyRounding(v) : v \in 1..FPDEC_MAX_ROUNDING_MODE}

\* ROUNDING(val): the member with that value, or the host's ValueError
fpdec_rnd_2_py_rnd(fpdec_rnd) ==
    IF PyRounding(fpdec_rnd) \in EnumRounding THEN PyRounding(fpdec_rnd)
    ELSE PyErr("ValueError")

\* the engine's mode of a ROUNDING member, or -1 with a TypeError set
py_rnd_2_fpdec_rnd(py_rnd) ==
    IF py_rnd.t # "ROUNDING" THEN -1
    ELSE IF py_rnd.i < 1 \/ py_rnd.i > FPDEC_MAX_ROUNDING_MODE THEN -1
    ELSE py_rnd.i

\* the engine's setter keeps the mode it is given
fpdec_set_default_rounding_mode(rnd) == rnd

get_dflt_rounding_mode == fpdec_rnd_2_py_rnd(fpdec_get_default_rounding_mode)

\* set_dflt_rounding_mode: [dflt, val], the default mode after the call and
\* what the call returns.  new_dflt has the enum's type, whose signedness
\* the compiler chooses: as a signed int, -1 is caught by "new_dflt < 0";
\* as an unsigned int it is UINT_MAX, the test is false, the engine's
\* setter is called and the method returns None with the TypeError still
\* set, which the host reports as a SystemError
set_dflt_rounding_mode(py_rnd, enum_is_signed) ==
    With(py_rnd_2_fpdec_rnd(py_rnd), LAMBDA fpdec_rnd :
    With(IF enum_is_signed THEN fpdec_rnd ELSE fpdec_rnd % (UINT_MAX + 1),
         LAMBDA new_dflt :
        IF new_dflt < 0
        THEN [dflt |-> fpdec_get_default_rounding_mode,
              val |-> PyErr("TypeError")]
        ELSE [dflt |-> fpdec_set_default_rounding_mode(new_dflt),
              val |-> IF fpdec_rnd = -1 THEN PyErr("SystemError")
                      ELSE Py_None]
    ))

\* ------------------------------------------------------------------------
\* Methods that are declared but not implemented
\* ------------------------------------------------------------------------

Decimal_adjusted(self, precision, rounding) == Py_NotImplemented

Decimal_round(self, precision) == Py_NotImplemented

\* ------------------------------------------------------------------------
\* as_tuple and magnitude
\* ------------------------------------------------------------------------

\* the tuple (sign, coeff, dec_prec) of three ints: the fields i, num and
\* den hold its items
PyTuple_Pack3(sign, coeff, dec_prec) ==
    [PyObj("tuple") EXCEPT !.rt = "int", !.i = sign, !.num = coeff,
                           !.den = dec_prec]

Decimal_as_tuple(self) ==
    With(fpdec_dec_coeff_exp(self.fpdec), LAMBDA ce :
        PyTuple_Pack3(FPDEC_SIGN(self.fpdec), ce.coeff, ce.exp))

\* the errno value the engine sets when a magnitude is undefined
ERANGE == "ERANGE"

\* fpdec_magnitude: floor(log10(|value|)); for zero -1 with errno set
fpdec_magnitude(fpdec) ==
    IF FPDEC_EQ_ZERO(fpdec) THEN [magn |-> -1, rc |-> ERANGE]
    ELSE [magn |-> Len(DecStr(Abs(Coeff(fpdec)))) - 1 - FPDEC_DEC_PREC(fpdec),
          rc |-> FPDEC_OK]

\* the magnitude property with the process's errno e: the value returned
\* or the error raised, and errno afterwards
Decimal_magnitude_get(self, e) ==
    With(fpdec_magnitude(self.fpdec), LAMBDA m :
    With(ERROR(m.rc, e), LAMBDA errno_now :
        [val |-> IF m.magn = -1 /\ errno_now # FPDEC_OK
                 THEN PyErr("OverflowError")
                 ELSE PyLong(m.magn),
         errno |-> errno_now]
    ))

\* ------------------------------------------------------------------------
\* Power
\* ------------------------------------------------------------------------

\* Fraction.__pow__ with an int exponent: (n/d)^e for e >= 0, (d/n)^-e for
\* e < 0, ZeroDivisionError for a zero base and e < 0
PyNumber_Power(f, exp) ==
    IF exp >= 0 THEN Fraction(f.num ^ exp, f.den ^ exp)
    ELSE IF f.num = 0 THEN PyErr("ZeroDivisionError")
    ELSE IF f.num > 0 THEN Fraction(f.den ^ (-exp), f.num ^ (-exp))
    ELSE Fraction((-f.den) ^ (-exp), (-f.num) ^ (-exp))

\* x ** exp for an int exp: [self, val, rc] with self the operand after the
\* call, val the value returned and rc the code of the engine call that
\* failed last (FPDEC_OK if none did)
dec_pow_pylong(x, exp) ==
    IF exp.i = 0
    THEN [self |-> x, val |-> DecimalType_from_fpdec(FPDEC_ONE, -1),
          rc |-> FPDEC_OK]
    ELSE With(Decimal_as_fraction(x), LAMBDA f :
         With(PyNumber_Power(f.val, exp.i), LAMBDA res :
            IF IsError(res)
            THEN [self |-> f.self, val |-> res, rc |-> FPDEC_OK]
            ELSE With(DecimalType_from_rational(res, -1), LAMBDA dec :
                 [self |-> f.self,
                  val |-> IF IsError(dec) THEN res ELSE dec,
                  rc |-> dec.rc])
         ))

\* an int exponent is its own PyNumber_Long
dec_pow_obj(x, y) == dec_pow_pylong(x, y)

\* pow(x, y, mod) for a Decimal x
Decimal_pow(x, y, mod) ==
    IF mod # Py_None
    THEN [self |-> x.dec, val |-> PyErr("TypeError"), rc |-> FPDEC_OK]
    ELSE IF PyLong_Check(y) THEN dec_pow_obj(x.dec, y)
    ELSE [self |-> x.dec, val |-> Py_NotImplemented, rc |-> FPDEC_OK]

\* ------------------------------------------------------------------------
\* Format specs (libfpdec/format_spec.c). A spec string is a sequence of
\* characters, each a string of one character, a character of several bytes
\* included; a character taken for a byte that starts no UTF-8 character is
\* BAD_BYTE. The terminating zero byte is NUL.
\* ------------------------------------------------------------------------

NUL == ""

BAD_BYTE == "\\xff"

\* the largest size_t value
SIZE_MAX == Py2pow64 - 1

DFLT_FORMAT ==
    [fill |-> <<" ">>, align |-> ">", sign |-> "-", min_width |-> 0,
     thousands_sep |-> <<>>, grouping |-> <<3>>, decimal_point |-> <<".">>,
     precision |-> SIZE_MAX, type |-> "f"]

no_fill == <<>>

\* utf8c_len: the number of bytes of the character at cp, 0 at the end of
\* the string, negative for a byte that starts no character
utf8c_len(c) ==
    CASE c = NUL -> 0
      [] c = BAD_BYTE -> -1
      [] c = "€" -> 3
      [] OTHER -> 1

\* *cp: the character at position cp of fmt, NUL at its end
CharAt(fmt, cp) == IF cp <= Len(fmt) THEN fmt[cp] ELSE NUL

IsAlign(c) == c \in {"<", ">", "=", "^"}

\* localeconv(): the byte strings thousands_sep, grouping and decimal_point
\* of the current locale
lconv(thousands_sep, grouping, decimal_point) ==
    [thousands_sep |-> thousands_sep, grouping |-> grouping,
     decimal_point |-> decimal_point]

\* the fill character and the alignment: the state [spec, cp, got_fill]
\* after them, t being the byte length of the first character
parse_fill_align(fmt, t) ==
    IF IsAlign(CharAt(fmt, 2))
    THEN [spec |-> [DFLT_FORMAT EXCEPT !.fill = <<fmt[1]>>,
                                       !.align = fmt[2]],
          cp |-> 3, got_fill |-> TRUE]
    ELSE IF IsAlign(CharAt(fmt, 1))
    THEN [spec |-> [DFLT_FORMAT EXCEPT !.align = fmt[1]],
          cp |-> 2, got_fill |-> FALSE]
    ELSE [spec |-> DFLT_FORMAT, cp |-> 1, got_fill |-> FALSE]

parse_sign(fmt, st) ==
    IF CharAt(fmt, st.cp) \in {"-", "+", " "}
    THEN [st EXCEPT !.spec.sign = fmt[st.cp], !.cp = st.cp + 1]
    ELSE st

parse_zero_padding(fmt, st) ==
    IF CharAt(fmt, st.cp) = "0"
    THEN [(IF ~st.got_fill
           THEN [st EXCEPT !.spec.fill = <<"0">>, !.spec.align = "="]
           ELSE st) EXCEPT !.cp = st.cp + 1]
    ELSE st

\* the loop over the digits that follow the first: [val, cp, rc], rc -1
\* when the size_t value, multiplied by ten and the digit added, is less
\* than before
RECURSIVE digits_loop(_, _, _)
digits_loop(fmt, cp, val) ==
    IF IsDigit(CharAt(fmt, cp))
    THEN With((val * 10 + DigitVal(fmt[cp])) % (SIZE_MAX + 1), LAMBDA next :
             IF next < val THEN [val |-> next, cp |-> cp + 1, rc |-> -1]
             ELSE digits_loop(fmt, cp + 1, next))
    ELSE [val |-> val, cp |-> cp, rc |-> 0]

\* the state [spec, cp, got_fill, rc] after the minimum width
parse_min_width(fmt, st) ==
    IF IsDigit(CharAt(fmt, st.cp))
    THEN IF fmt[st.cp] = "0"
         THEN [spec |-> st.spec, cp |-> st.cp, got_fill |-> st.got_fill,
               rc |-> -1]
         ELSE With(digits_loop(fmt, st.cp + 1, DigitVal(fmt[st.cp])),
                   LAMBDA n :
                  [spec |-> [st.spec EXCEPT !.min_width = n.val],
                   cp |-> n.cp, got_fill |-> st.got_fill, rc |-> n.rc])
    ELSE [spec |-> st.spec, cp |-> st.cp, got_fill |-> st.got_fill, rc |-> 0]

parse_thousands_sep(fmt, st) ==
    IF CharAt(fmt, st.cp) = ","
    THEN [st EXCEPT !.spec.thousands_sep = <<",">>, !.cp = st.cp + 1]
    ELSE st

\* a precision that may have no digits
parse_precision_lax(fmt, st) ==
    IF CharAt(fmt, st.cp) = "."
    THEN With(digits_loop(fmt, st.cp + 1, 0), LAMBDA n :
             [st EXCEPT !.spec.precision = n.val, !.cp = n.cp, !.rc = n.rc])
    ELSE st

parse_precision(fmt, st) ==
    IF CharAt(fmt, st.cp) = "."
    THEN IF ~IsDigit(CharAt(fmt, st.cp + 1))
         THEN [st EXCEPT !.cp = st.cp + 1, !.rc = -1]
         ELSE With(digits_loop(fmt, st.cp + 2, DigitVal(fmt[st.cp + 1])),
                   LAMBDA n :
                  [st EXCEPT !.spec.precision = n.val, !.cp = n.cp,
                             !.rc = n.rc])
    ELSE st

parse_type(fmt, st) ==
    IF CharAt(fmt, st.cp) \in {"f", "F", "n", "%"}
    THEN [st EXCEPT !.spec.type = fmt[st.cp], !.cp = st.cp + 1]
    ELSE st

\* no fill and align without min_width
parse_no_fill(spec) ==
    IF spec.min_width = 0
    THEN [spec EXCEPT !.fill = no_fill, !.align = "<"]
    ELSE spec

\* the locale specific parameters of type 'n': [rc, spec]
parse_locale(spec, lc) ==
    IF spec.type # "n" THEN [rc |-> 0, spec |-> spec]
    ELSE IF spec.thousands_sep # <<>> /\ Len(lc.thousands_sep) > 4
    THEN [rc |-> -2, spec |-> spec]
    ELSE With(IF spec.thousands_sep # <<>>
              THEN [spec EXCEPT !.thousands_sep = lc.thousands_sep]
              ELSE spec, LAMBDA s1 :
         IF Len(lc.grouping) >= 5 THEN [rc |-> -2, spec |-> s1]
         ELSE IF Len(lc.decimal_point) = 0 \/ Len(lc.decimal_point) > 4
         THEN [rc |-> -2, spec |-> [s1 EXCEPT !.grouping = lc.grouping]]
         ELSE [rc |-> 0,
               spec |-> [s1 EXCEPT !.grouping = lc.grouping,
                                   !.decimal_point = lc.decimal_point]])

\* parse_format_spec(&spec, fmt) in the locale lc: [rc, spec]
parse_format_spec(fmt, lc) ==
    With(utf8c_len(CharAt(fmt, 1)), LAMBDA t :
    IF t <= 0 THEN [rc |-> t, spec |-> DFLT_FORMAT]
    ELSE
    With(parse_min_width(fmt,
             parse_zero_padding(fmt,
                 parse_sign(fmt, parse_fill_align(fmt, t)))), LAMBDA mw :
    IF mw.rc # 0 THEN [rc |-> mw.rc, spec |-> mw.spec]
    ELSE
    With(parse_precision(fmt, parse_thousands_sep(fmt, mw)), LAMBDA p :
    IF p.rc # 0 THEN [rc |-> p.rc, spec |-> p.spec]
    ELSE
    With(parse_type(fmt, p), LAMBDA ty :
    IF CharAt(fmt, ty.cp) # NUL THEN [rc |-> -1, spec |-> ty.spec]
    ELSE parse_locale(parse_no_fill(ty.spec), lc)
    ))))
\* ------------------------------------------------------------------------
\* Bounds of the exploration
\* ------------------------------------------------------------------------

\* literals have coefficients in -MaxCoeff..MaxCoeff
MaxCoeff == 2

\* and up to MaxPrec fractional digits
MaxPrec == 2

\* host integers used as right operands: 0..MaxSmall
MaxSmall == 3

\* rationals are built from numerators and denominators in -MaxRat..MaxRat
MaxRat == 2

\* the operands of a binary operation have, together, at most MaxDigits
\* decimal digits (the checker's integers are 32 bits wide)
MaxDigits == 8

\* ------------------------------------------------------------------------
\* Inputs
\* ------------------------------------------------------------------------

\* the literal of c * 10^-p with exactly p fractional digits
Literal(c, p) ==
    (IF c < 0 THEN <<"-">> ELSE <<>>)
    \o DecStr(Abs(c) \div Pow10(p))
    \o (IF p = 0 THEN <<>> ELSE <<".">> \o PadStr(Abs(c) % Pow10(p), p))

Literals ==
    {PyUnicode(Literal(c, p)) : c \in (-MaxCoeff)..MaxCoeff, p \in 0..MaxPrec}

\* integers beyond the long long range, beyond the shifted-int range, and
\* with zero digits at the low end of the digit array
BigInts ==
    {PyLong(i) : i \in {LLONG_MAX + 1, U128_LIMIT + 1, 4 * RADIX * RADIX,
                        -2 * RADIX * RADIX}}

\* instances of numbers.Rational, in lowest terms or not, of either sign
Rationals ==
    {PyRational(n, d) : n \in (-MaxRat)..MaxRat, d \in (-MaxRat)..MaxRat}

NoPrecision == <<>>

Precisions == {NoPrecision} \cup {<<p>> : p \in 0..(MaxPrec + 1)}

CompareOps == {"Py_LT", "Py_LE", "Py_EQ", "Py_NE", "Py_GT", "Py_GE"}

\* coefficients of the values that are rounded: -MaxRoundCoeff..MaxRoundCoeff
MaxRoundCoeff == 15

\* values to be rounded: with two fractional digits, among them values whose
\* truncation to one fractional digit ends in 5, and 1.5
RoundLiterals ==
    {PyUnicode(Literal(c, 2)) :
        c \in ((-MaxRoundCoeff)..MaxRoundCoeff)
                \cup {s * (50 + k) : s \in {-1, 1}, k \in {1, 5}}}
    \cup {PyUnicode(<<"1", ".", "5">>)}

\* instances of numbers.Rational to be rounded
RoundRationals ==
    {PyRational(n, d) : n \in (-MaxRat)..MaxRat, d \in 1..MaxRat}

\* objects that are no member of ROUNDING
NoRoundings == {Py_None, PyLong(FPDEC_ROUND_DOWN), PyUnicode(<<>>)}

DecLen(n) == Len(DecStr(Abs(n)))

\* the operands are within the range the exploration can compute on
InRange(a, b) ==
    LET fa == fpdec_from_obj(a).z
        fb == fpdec_from_obj(b).z
    IN  DecLen(Coeff(fa)) + DecLen(Coeff(fb))
            + Max2(fa.dec_prec, fb.dec_prec) <= MaxDigits

\* the operands of a sum or a difference are within that range
InRangeSum(a, b) ==
    LET fa == fpdec_from_obj(a).z
        fb == fpdec_from_obj(b).z
    IN  Max2(DecLen(Coeff(fa)), DecLen(Coeff(fb)))
            + Max2(fa.dec_prec, fb.dec_prec) + 1 <= MaxDigits

\* ------------------------------------------------------------------------
\* The state machine
\* ------------------------------------------------------------------------

Init ==
    /\ opx = DecimalType_new(Py_None, NoPrecision)
    /\ opy = DecimalType_new(Py_None, NoPrecision)
    /\ result = Py_None
    /\ last_op = "init"
    /\ dflt_rounding = FPDEC_ROUND_HALF_EVEN
    /\ errno = FPDEC_OK

\* x = Decimal(value, precision)
NewX(values, precisions) ==
    \E value \in values, precision \in precisions :
        /\ result' = DecimalType_new(value, precision)
        /\ opx' = IF IsError(result') THEN opx ELSE result'
        /\ last_op' = "new"
        /\ errno' = errno_after(result', errno)
        /\ UNCHANGED <<opy, dflt_rounding>>

\* y = Decimal(value, precision)
NewY(values, precisions) ==
    \E value \in values, precision \in precisions :
        /\ result' = DecimalType_new(value, precision)
        /\ opy' = IF IsError(result') THEN opy ELSE result'
        /\ last_op' = "new"
        /\ errno' = errno_after(result', errno)
        /\ UNCHANGED <<opx, dflt_rounding>>

\* y = a host integer
IntY ==
    \E i \in 0..MaxSmall :
        /\ opy' = PyLong(i)
        /\ result' = Py_None
        /\ last_op' = "new"
        /\ UNCHANGED <<opx, dflt_rounding, errno>>

\* y = the Decimal the last unary operation returned
StoreY ==
    /\ last_op \in {"neg", "abs"}
    /\ opy' = result
    /\ result' = Py_None
    /\ last_op' = "store"
    /\ UNCHANGED <<opx, dflt_rounding, errno>>

Neg ==
    /\ result' = Decimal_neg(opx)
    /\ last_op' = "neg"
    /\ UNCHANGED <<opx, opy, dflt_rounding, errno>>

AbsX ==
    /\ result' = Decimal_abs(opx)
    /\ last_op' = "abs"
    /\ UNCHANGED <<opx, opy, dflt_rounding, errno>>

Add ==
    /\ InRange(opx, opy)
    /\ \E r \in {Decimal_add(opx, opy)} :
        /\ opx' = r.x
        /\ opy' = r.y
        /\ result' = r.val
    /\ last_op' = "add"
    /\ errno' = BINOP_errno(opx, opy, "PyNumber_Add", errno)
    /\ UNCHANGED dflt_rounding

Sub ==
    /\ InRangeSum(opx, opy)
    /\ \E r \in {Decimal_sub(opx, opy)} :
        /\ opx' = r.x
        /\ opy' = r.y
        /\ result' = r.val
    /\ last_op' = "sub"
    /\ errno' = BINOP_errno(opx, opy, "PyNumber_Subtract", errno)
    /\ UNCHANGED dflt_rounding

Mul ==
    /\ InRange(opx, opy)
    /\ \E r \in {Decimal_mul(opx, opy)} :
        /\ opx' = r.x
        /\ opy' = r.y
        /\ result' = r.val
    /\ last_op' = "mul"
    /\ errno' = BINOP_errno(opx, opy, "PyNumber_Multiply", errno)
    /\ UNCHANGED dflt_rounding

Remainder ==
    /\ InRange(opx, opy)
    /\ \E r \in {Decimal_remainder(opx, opy)} :
        /\ opx' = r.x
        /\ opy' = r.y
        /\ result' = r.val
    /\ last_op' = "mod"
    /\ errno' = BINOP_errno(opx, opy, "PyNumber_Remainder", errno)
    /\ UNCHANGED dflt_rounding

Divmod ==
    /\ InRange(opx, opy)
    /\ \E r \in {Decimal_divmod(opx, opy)} :
        /\ opx' = r.x
        /\ opy' = r.y
        /\ result' = r.val
    /\ last_op' = "divmod"
    /\ errno' = BINOP_errno(opx, opy, "PyNumber_Divmod", errno)
    /\ UNCHANGED dflt_rounding

Floordiv ==
    /\ InRange(opx, opy)
    /\ \E r \in {Decimal_floordiv(opx, opy)} :
        /\ opx' = r.x
        /\ opy' = r.y
        /\ result' = r.val
    /\ last_op' = "floordiv"
    /\ errno' = BINOP_errno(opx, opy, "PyNumber_FloorDivide", errno)
    /\ UNCHANGED dflt_rounding

Truediv ==
    /\ InRange(opx, opy)
    /\ \E r \in {Decimal_truediv(opx, opy)} :
        /\ opx' = r.x
        /\ opy' = r.y
        /\ result' = r.val
    /\ last_op' = "truediv"
    /\ errno' = BINOP_errno(opx, opy, "PyNumber_TrueDivide", errno)
    /\ UNCHANGED dflt_rounding

\* the text after "Decimal(" of a repr, up to the end of the value: a quoted
\* literal or an integer
ReprValueEnd(s, i) ==
    IF s[i] = "'"
    THEN CHOOSE k \in (i + 1)..Len(s) :
            s[k] = "'" /\ \A m \in (i + 1)..(k - 1) : s[m] # "'"
    ELSE i + (IF s[i] = "-" THEN 1 ELSE 0)
           + CountDigits(s, i + (IF s[i] = "-" THEN 1 ELSE 0)) - 1

\* the value argument written in s[i..e]
ReprValue(s, i, e) ==
    IF s[i] = "'" THEN PyUnicode(SubSeq(s, i + 1, e - 1))
    ELSE IF s[i] = "-" THEN PyLong(-NumOf(s, i + 1, e - i))
    ELSE PyLong(NumOf(s, i, e - i + 1))

\* the precision argument written after index e: none, or ", " and digits
ReprPrecision(s, e) ==
    IF s[e + 1] = ")" THEN NoPrecision
    ELSE <<NumOf(s, e + 3, CountDigits(s, e + 3))>>

\* the host's evaluation of the expression Decimal(<value>[, <precision>])
EvalRepr(s) ==
    With(ReprValueEnd(s, 9), LAMBDA e :
        DecimalType_new(ReprValue(s, 9, e), ReprPrecision(s, e)))

\* the numerator property of x
NumeratorX ==
    /\ \E r \in {Decimal_numerator_get(opx.dec)} :
        /\ opx' = [opx EXCEPT !.dec = r.self]
        /\ result' = PyLong(r.val)
    /\ last_op' = "numerator"
    /\ UNCHANGED <<opy, dflt_rounding, errno>>

\* the denominator property of x
DenominatorX ==
    /\ \E r \in {Decimal_denominator_get(opx.dec)} :
        /\ opx' = [opx EXCEPT !.dec = r.self]
        /\ result' = PyLong(r.val)
    /\ last_op' = "denominator"
    /\ UNCHANGED <<opy, dflt_rounding, errno>>

\* hash(x)
HashX ==
    /\ \E r \in {Decimal_hash(opx.dec)} :
        /\ opx' = [opx EXCEPT !.dec = r.self]
        /\ result' = PyLong(r.val)
    /\ last_op' = "hash"
    /\ UNCHANGED <<opy, dflt_rounding, errno>>

\* hash(y)
HashY ==
    /\ Decimal_Check(opy)
    /\ \E r \in {Decimal_hash(opy.dec)} :
        /\ opy' = [opy EXCEPT !.dec = r.self]
        /\ result' = PyLong(r.val)
    /\ last_op' = "hash_y"
    /\ UNCHANGED <<opx, dflt_rounding, errno>>

\* x < y, x <= y, x == y, x != y, x > y, x >= y
Compare ==
    \E op \in CompareOps :
        /\ \E r \in {Decimal_richcompare(opx.dec, opy, op)} :
            /\ opx' = [opx EXCEPT !.dec = r.self]
            /\ result' = r.val
        /\ last_op' = op
        /\ UNCHANGED <<opy, dflt_rounding, errno>>

\* str(x)
Str ==
    /\ result' = Decimal_str(opx.dec)
    /\ last_op' = "str"
    /\ UNCHANGED <<opx, opy, dflt_rounding, errno>>

\* repr(x)
Repr ==
    /\ result' = Decimal_repr(opx.dec)
    /\ last_op' = "repr"
    /\ UNCHANGED <<opx, opy, dflt_rounding, errno>>

\* Decimal(s) for the string s that str(x) returned
ParseStr ==
    /\ last_op = "str"
    /\ result' = DecimalType_new(result, NoPrecision)
    /\ last_op' = "parse"
    /\ errno' = errno_after(result', errno)
    /\ UNCHANGED <<opx, opy, dflt_rounding>>

\* eval(s) for the string s that repr(x) returned
Eval ==
    /\ last_op = "repr"
    /\ result' = EvalRepr(result.s)
    /\ last_op' = "eval"
    /\ errno' = errno_after(result', errno)
    /\ UNCHANGED <<opx, opy, dflt_rounding>>

\* addition, subtraction, multiplication, true division, negation
Next ==
    \/ NewX(Literals \cup BigInts, {NoPrecision})
    \/ NewY(Literals \cup BigInts, {NoPrecision})
    \/ IntY
    \/ StoreY
    \/ Neg
    \/ AbsX
    \/ Add
    \/ Sub
    \/ Mul
    \/ Truediv

Spec == Init /\ [][Next]_vars

\* the four divisions
NextDiv ==
    \/ NewX(Literals \cup BigInts, {NoPrecision})
    \/ NewY(Literals \cup BigInts, {NoPrecision})
    \/ IntY
    \/ Remainder
    \/ Divmod
    \/ Floordiv
    \/ Truediv

SpecDiv == Init /\ [][NextDiv]_vars


\* the memoised ratio
NextRatio ==
    \/ NewX(Literals \cup BigInts \cup Rationals, Precisions)
    \/ NumeratorX
    \/ DenominatorX

SpecRatio == Init /\ [][NextRatio]_vars

\* comparisons
NextCmp ==
    \/ NewX(Literals \cup BigInts \cup Rationals, {NoPrecision})
    \/ NewY(Literals \cup BigInts, {NoPrecision})
    \/ IntY
    \/ Compare

SpecCmp == Init /\ [][NextCmp]_vars

\* hashes
NextHash ==
    \/ NewX(Literals \cup BigInts, {NoPrecision, <<MaxPrec>>})
    \/ NewY(Rationals, {NoPrecision})
    \/ HashX
    \/ HashY

SpecHash == Init /\ [][NextHash]_vars

\* str, repr and back
NextStr ==
    \/ NewX(Literals \cup BigInts, Precisions)
    \/ Str
    \/ Repr
    \/ ParseStr
    \/ Eval

SpecStr == Init /\ [][NextStr]_vars


\* set_dflt_rounding_mode(y) for an object y
SetRounding(args) ==
    \E py_rnd \in args, enum_is_signed \in BOOLEAN :
        /\ opy' = py_rnd
        /\ \E r \in {set_dflt_rounding_mode(opy', enum_is_signed)} :
            /\ dflt_rounding' = r.dflt
            /\ result' = r.val
        /\ last_op' = "set_rounding"
        /\ UNCHANGED <<opx, errno>>

\* get_dflt_rounding_mode()
GetRounding ==
    /\ result' = get_dflt_rounding_mode
    /\ last_op' = "get_rounding"
    /\ UNCHANGED <<opx, opy, dflt_rounding, errno>>

\* Decimal(x, y) for a precision y
AdjustX ==
    \E p \in 0..MaxPrec :
        /\ opy' = PyLong(p)
        /\ result' = DecimalType_new(opx, <<opy'.i>>)
        /\ last_op' = "adjust"
        /\ errno' = errno_after(result', errno)
        /\ UNCHANGED <<opx, dflt_rounding>>

\* Decimal(y, p) for a host object y
Convert(values) ==
    \E value \in values, p \in 0..MaxPrec :
        /\ opy' = value
        /\ result' = DecimalType_new(opy', <<p>>)
        /\ last_op' = "convert"
        /\ errno' = errno_after(result', errno)
        /\ UNCHANGED <<opx, dflt_rounding>>

\* x.__round__(n)
Round ==
    \E n \in 0..MaxPrec :
        /\ opy' = PyLong(n)
        /\ result' = Decimal_round(opx.dec, opy')
        /\ last_op' = "round"
        /\ UNCHANGED <<opx, dflt_rounding, errno>>

\* rounding under the default rounding mode
NextRound ==
    \/ NewX(RoundLiterals, {NoPrecision})
    \/ SetRounding(EnumRounding)
    \/ AdjustX
    \/ Convert(RoundRationals)
    \/ Round

SpecRound == Init /\ [][NextRound]_vars

\* the default rounding mode
NextMode ==
    \/ SetRounding(EnumRounding \cup NoRoundings)
    \/ GetRounding
    \/ NewX(RoundLiterals, {NoPrecision})
    \/ AdjustX

SpecMode == Init /\ [][NextMode]_vars

\* decimal.Decimal values: with up to FPDEC_MAX_DEC_PREC + 1 fractional
\* digits, zero with an exponent whose negation does not fit an int, and
\* Infinity
StdLibDecimals ==
    {PyStdLibDecimal(c, e, TRUE) :
        c \in {0, 15},
        e \in {-FPDEC_MAX_DEC_PREC - 1, -FPDEC_MAX_DEC_PREC, 1}}
    \cup {PyStdLibDecimal(0, -(2^INT_BITS + 2), TRUE),
          PyStdLibDecimal(0, 0, FALSE)}

\* floats: with up to FPDEC_MAX_DEC_PREC + 1 fractional digits, and inf
Floats ==
    {PyFloat(n, 2^k, TRUE) :
        n \in {-3, 1}, k \in {FPDEC_MAX_DEC_PREC, FPDEC_MAX_DEC_PREC + 1}}
    \cup {PyFloat(0, 1, FALSE)}

\* values of every kind the constructor takes
PrecValues ==
    {Py_None, PyLong(2), PyLong(U128_LIMIT + 1),
     PyRational(1, 4), PyRational(1, 16),
     PyUnicode(Literal(1, FPDEC_MAX_DEC_PREC)),
     PyUnicode(Literal(1, FPDEC_MAX_DEC_PREC + 1))}
    \cup StdLibDecimals \cup Floats

\* precisions given to the constructor: below, in and beyond the range, and
\* beyond the range of long
PrecArgs ==
    {-1, 0, FPDEC_MAX_DEC_PREC, FPDEC_MAX_DEC_PREC + 1, LLONG_MAX + 1}

\* x = Decimal(value, y) for a host object value and a precision y
NewPrec(values, precisions) ==
    \E value \in values, p \in precisions :
        /\ opy' = PyLong(p)
        /\ result' = DecimalType_new(value, <<opy'.i>>)
        /\ opx' = IF IsError(result') THEN opx ELSE result'
        /\ last_op' = "new_prec"
        /\ errno' = errno_after(result', errno)
        /\ UNCHANGED dflt_rounding

\* constructions from every kind of value and the operations on them
NextPrec ==
    \/ NewX(PrecValues, {NoPrecision})
    \/ NewPrec(PrecValues, PrecArgs)
    \/ StoreY
    \/ Neg
    \/ Add
    \/ Mul
    \/ Truediv

SpecPrec == Init /\ [][NextPrec]_vars

\* integers of every size: within the long long range, within the packed
\* shifted-int range, beyond it but within 128 bits, and digit arrays with
\* and without zero digits at the low end
HostInts ==
    {PyLong(i) : i \in {0, 1, -1, LLONG_MAX, -LLONG_MAX - 1, LLONG_MAX + 1,
                        2^SHINT_MAX_BITS - 1, 2^SHINT_MAX_BITS,
                        U128_LIMIT - 1, U128_LIMIT + 1, -U128_LIMIT - 2,
                        4 * RADIX * RADIX, 4 * RADIX * RADIX - 1,
                        -2 * RADIX * RADIX, 123 * RADIX * RADIX}}

\* digit-array values with fractional digits
BigLiterals ==
    {PyUnicode(Literal(c, p)) :
        c \in {2 * RADIX * RADIX * 10 + 5, -(U128_LIMIT + 1)}, p \in 1..2}

\* x = Decimal(y) for a host integer y
FromInteger ==
    \E value \in HostInts :
        /\ opy' = value
        /\ result' = DecimalType_new(opy', NoPrecision)
        /\ opx' = IF IsError(result') THEN opx ELSE result'
        /\ last_op' = "from_integer"
        /\ errno' = errno_after(result', errno)
        /\ UNCHANGED dflt_rounding

\* int(x)
IntX ==
    /\ result' = Decimal_int(opx)
    /\ last_op' = "int"
    /\ UNCHANGED <<opx, opy, dflt_rounding, errno>>

\* integers and their conversions
NextInt ==
    \/ NewX(Literals \cup BigLiterals \cup BigInts, {NoPrecision})
    \/ NewY(HostInts, {NoPrecision})
    \/ FromInteger
    \/ IntX
    \/ Compare
    \/ Sub

SpecInt == Init /\ [][NextInt]_vars

\* x.as_tuple()
AsTuple ==
    /\ result' = Decimal_as_tuple(opx.dec)
    /\ last_op' = "as_tuple"
    /\ UNCHANGED <<opx, opy, dflt_rounding, errno>>

\* values of both representations and their tuples
NextTuple ==
    \/ NewX(Literals \cup BigLiterals \cup BigInts, Precisions)
    \/ Neg
    \/ AsTuple

SpecTuple == Init /\ [][NextTuple]_vars

\* strings that are no decimal literals
NoLiterals == {PyUnicode(<<"x">>), PyUnicode(<<"1", "e">>)}

\* x.magnitude
Magnitude ==
    /\ \E r \in {Decimal_magnitude_get(opx.dec, errno)} :
        /\ result' = r.val
        /\ errno' = r.errno
    /\ last_op' = "magnitude"
    /\ UNCHANGED <<opx, opy, dflt_rounding>>

\* magnitudes among constructions that fail and constructions that succeed
NextMagn ==
    \/ NewX(Literals \cup BigInts \cup NoLiterals, {NoPrecision})
    \/ Neg
    \/ Magnitude

SpecMagn == Init /\ [][NextMagn]_vars

\* the parts of a string of the literal grammar: white space, sign, integer
\* digits, point, fractional digits, exponent, white space
LiteralParts ==
    {g \in [lead : {<<>>, <<" ">>},
            sign : {<<>>, <<"+">>, <<"-">>},
            int : {<<>>, <<"0">>, <<"1", "2">>, <<"2", "0", "0", "0", "0">>},
            point : BOOLEAN,
            frac : {<<>>, <<"5">>, <<"0", "5">>, <<"0", "0", "2", "5">>},
            e : {<<>>, <<"e">>, <<"E">>},
            esign : {<<>>, <<"+">>, <<"-">>},
            exp : {<<>>, <<"0">>, <<"1">>, <<"2">>},
            trail : {<<>>, <<" ">>}] :
        /\ g.int # <<>> \/ (g.point /\ g.frac # <<>>)
        /\ g.frac # <<>> => g.point
        /\ g.e # <<>> <=> g.exp # <<>>
        /\ g.e = <<>> => g.esign = <<>>
        /\ g.lead = <<>> \/ g.sign = <<"-">>
        /\ g.trail = <<>> \/ g.e = <<"E">>
        /\ g.sign = <<"+">> => g.int = <<"0">>
        /\ g.esign = <<"+">> => g.exp = <<"1">>
        /\ g.e = <<"E">> => g.exp = <<"1">>
        /\ g.int = <<"1", "2">> => g.e = <<>>
        /\ g.frac = <<"0", "5">> => g.int = <<"2", "0", "0", "0", "0">>}

\* the string of the parts g
LiteralOf(g) ==
    g.lead \o g.sign \o g.int \o (IF g.point THEN <<".">> ELSE <<>>)
    \o g.frac \o g.e \o g.esign \o g.exp \o g.trail

\* strings outside the literal grammar
NoLiteralStrings ==
    {<<>>, <<" ">>, <<".">>, <<"-">>, <<"e", "5">>, <<"1", "e">>,
     <<"1", "e", "+">>, <<"1", ".", "5", "x">>, <<"1", " ", "2">>,
     <<"+", "-", "1">>, <<".", ".", "1">>, <<"1", ".", "2", ".", "3">>,
     <<"-", " ", "1">>, <<"1", "e", "1", ".", "5">>, <<"a">>}

\* Decimal(y) for a string y
FromString(strings) ==
    \E s \in strings :
        /\ opy' = PyUnicode(s)
        /\ result' = DecimalType_new(opy', NoPrecision)
        /\ last_op' = "from_string"
        /\ errno' = errno_after(result', errno)
        /\ UNCHANGED <<opx, dflt_rounding>>

\* constructions from strings
NextParse ==
    \/ FromString({LiteralOf(g) : g \in LiteralParts})
    \/ FromString(NoLiteralStrings)

SpecParse == Init /\ [][NextParse]_vars

\* exponents: -MaxPow..MaxPow
MaxPow == 3

\* values with the fractions 1/2, 1/4 and 3/2
PowLiterals ==
    {PyUnicode(Literal(c, p)) : c \in {5, 25, 15}, p \in 1..2}

\* the power is within the range the exploration can compute on
InRangePow(x, n) ==
    Abs(n) * (DecLen(Coeff(x.dec.fpdec)) + FPDEC_DEC_PREC(x.dec.fpdec))
        <= MaxDigits

\* x ** y for a host integer or another object y
Pow ==
    \E y \in {PyLong(n) : n \in (-MaxPow)..MaxPow} \cup {Py_None} :
        /\ PyLong_Check(y) => InRangePow(opx, y.i)
        /\ opy' = y
        /\ \E r \in {Decimal_pow(opx, opy', Py_None)} :
            /\ opx' = [opx EXCEPT !.dec = r.self]
            /\ result' = r.val
            /\ errno' = ERROR(r.rc, errno)
        /\ last_op' = "pow"
        /\ UNCHANGED dflt_rounding

\* powers
NextPow ==
    \/ NewX(Literals \cup PowLiterals, {NoPrecision})
    \/ Neg
    \/ Pow

SpecPow == Init /\ [][NextPow]_vars

\* complex numbers: with zero and non-zero imaginary part, a real part that
\* is the value of a Decimal or not, and real parts inf, -inf and nan
Complexes ==
    {PyComplex(re, im, 2^k, TRUE) :
        re \in (-MaxCoeff)..MaxCoeff, im \in {-1, 0, 2}, k \in 0..1}
    \cup {PyComplex(re, im, 1, FALSE) : re \in {-1, 0, 1}, im \in {0, 1}}

\* y = c for a complex number c
NewComplex ==
    /\ \E c \in Complexes : opy' = c
    /\ result' = Py_None
    /\ last_op' = "new_y"
    /\ UNCHANGED <<opx, dflt_rounding, errno>>

\* comparisons of Decimals with complex numbers
NextComplex ==
    \/ NewX(Literals, {NoPrecision})
    \/ NewComplex
    \/ Compare

SpecComplex == Init /\ [][NextComplex]_vars

\* rationals that are stored unnormalised
FrameRationals == {PyRational(1, -2), PyRational(2, 4)}

\* operations of every kind on two Decimals that stay in existence
NextFrame ==
    \/ NewX({PyUnicode(Literal(c, p)) : c \in {-1, 0, 2}, p \in 0..1}
                \cup FrameRationals, {NoPrecision})
    \/ NewY({PyUnicode(Literal(c, 1)) : c \in {-2, 0, 1}}, {NoPrecision})
    \/ Neg
    \/ AbsX
    \/ StoreY
    \/ Add
    \/ Mul
    \/ Divmod
    \/ Truediv
    \/ NumeratorX
    \/ DenominatorX
    \/ HashX
    \/ HashY
    \/ Compare
    \/ Str

SpecFrame == Init /\ [][NextFrame]_vars

\* host objects as second operand: no number, a rational that is no decimal,
\* a rational that is one, an int beyond the shifted-int range
HostOperands ==
    {PyUnicode(<<"x">>), PyRational(1, 3), PyRational(1, 2),
     PyLong(4 * RADIX * RADIX)}

\* y = a host object
HostY ==
    /\ \E v \in HostOperands : opy' = v
    /\ result' = Py_None
    /\ last_op' = "new"
    /\ UNCHANGED <<opx, dflt_rounding, errno>>

\* the binary operators on Decimals and host objects
NextBinop ==
    \/ NewX({PyUnicode(Literal(c, p)) : c \in {-1, 0, 2}, p \in 0..1}
                \cup BigInts, {NoPrecision})
    \/ NewY({PyUnicode(Literal(c, 1)) : c \in {-2, 0, 1}}, {NoPrecision})
    \/ HostY
    \/ Add
    \/ Sub
    \/ Mul
    \/ Remainder
    \/ Divmod
    \/ Floordiv
    \/ Truediv

SpecBinop == Init /\ [][NextBinop]_vars

\* the length of the format specs that are enumerated in full
MaxFmtLen == 4

\* characters of the enumerated format specs
FmtAlphabet == {"<", "+", "0", "1", ",", ".", "f", "n", "x"}

\* all strings over FmtAlphabet of length n
RECURSIVE FmtStrings(_)
FmtStrings(n) ==
    IF n = 0 THEN {<<>>}
    ELSE {Append(s, c) : s \in FmtStrings(n - 1), c \in FmtAlphabet}

\* the parts [[fill]align][sign][0][min_width][,][.precision][type] of a
\* format spec, taken from the given sets (an absent part is <<>>; a fill
\* is followed by an align)
FormatParts(fills, aligns, signs, widths, precisions, types) ==
    {g \in [fill : fills \cup {<<>>}, align : aligns \cup {<<>>},
            sign : signs \cup {<<>>}, zero : {<<>>, <<"0">>},
            min_width : widths \cup {<<>>}, comma : {<<>>, <<",">>},
            precision : precisions \cup {<<>>}, type : types \cup {<<>>}] :
        g.fill # <<>> => g.align # <<>>}

FormatOf(g) ==
    g.fill \o g.align \o g.sign \o g.zero \o g.min_width \o g.comma
        \o (IF g.precision = <<>> THEN <<>> ELSE <<".">> \o g.precision)
        \o g.type

\* digit strings over 0 and 1 of length 1 to n, the first digit from first
BinaryDigits(n, first) ==
    {<<d>> \o s : d \in first, s \in UNION {[1..k -> {"0", "1"}] : k \in 0..(n - 1)}}

\* the parts of the format specs over FmtAlphabet, up to length MaxFmtLen
ShortFormatParts ==
    {g \in FormatParts({<<c>> : c \in FmtAlphabet}, {<<"<">>}, {<<"+">>},
                       BinaryDigits(MaxFmtLen, {"1"}),
                       BinaryDigits(MaxFmtLen - 1, {"0", "1"}),
                       {<<"f">>, <<"n">>}) :
        Len(FormatOf(g)) <= MaxFmtLen}

\* the parts of longer format specs: with a fill of one and of three
\* bytes, and with numbers up to and beyond SIZE_MAX
LongFormatParts ==
    FormatParts({<<"x">>, <<"€">>}, {<<"^">>}, {<<" ">>},
                {<<"1", "2">>, <<"1", "2", "7">>, <<"1", "2", "8">>,
                 <<"2", "0", "0">>, <<"1", "0", "0", "0">>},
                {<<"0">>, <<"1", "2", "7">>, <<"2", "0", "0">>,
                 <<"1", "2", "8", "0">>},
                {<<"%">>, <<"n">>})

\* strings that are no format spec: a byte that starts no character, a
\* character of three bytes that is no fill, a precision without digits
\* after a fill of three bytes
NoFormats ==
    {<<BAD_BYTE>>, <<BAD_BYTE, "<">>, <<"€">>, <<"€", "1">>,
     <<"€", "^", "1", ".">>, <<"x", "^", "0", "0", "1">>}

\* the locales C, de_DE, fr_FR (a thousands separator of three bytes), and
\* a locale with a thousands separator of five bytes
Locales ==
    {lconv(<<>>, <<>>, <<".">>),
     lconv(<<".">>, <<3, 3>>, <<",">>),
     lconv(<<"\\xe2", "\\x80", "\\xaf">>, <<3>>, <<",">>),
     lconv(<<"a", "b", "c", "d", "e">>, <<3>>, <<".">>)}

\* the format specs that are parsed
Formats ==
    UNION {FmtStrings(n) : n \in 0..MaxFmtLen}
        \cup {FormatOf(g) : g \in LongFormatParts}
        \cup NoFormats

\* y is a format spec
InitFormat ==
    /\ opx = DecimalType_new(Py_None, NoPrecision)
    /\ opy \in {PyUnicode(fmt) : fmt \in Formats}
    /\ result = Py_None
    /\ last_op = "init"
    /\ dflt_rounding = FPDEC_ROUND_HALF_EVEN
    /\ errno = FPDEC_OK

\* parse_format_spec(&spec, y) in some locale
ParseFormat ==
    /\ last_op = "init"
    /\ \E lc \in Locales :
           result' = [t |-> "format_spec", lc |-> lc,
                      rc |-> parse_format_spec(opy.s, lc).rc,
                      spec |-> parse_format_spec(opy.s, lc).spec]
    /\ last_op' = "parse_format_spec"
    /\ UNCHANGED <<opx, opy, dflt_rounding, errno>>

NextFormat == ParseFormat

SpecFormat == InitFormat /\ [][NextFormat]_vars

\* the bit lengths of the integers that are converted
MaxBits == 26

\* integers around the powers of two and of RADIX, of either sign, and
\* integers with a trailing zero in the least significant digit
DigitArrayInts ==
    {PyLong(s * (2^k + d)) :
        s \in {-1, 1}, k \in SHINT_MAX_BITS..MaxBits, d \in {-1, 0, 1}}
    \cup {PyLong(RADIX^j + d) : j \in 2..4, d \in {-1, 0, 1}}
    \cup {PyLong(1638410), PyLong(-20480070), PyLong(123 * RADIX * RADIX)}

\* x = Decimal(y) for a host integer y from values
FromPyLong(values) ==
    \E value \in values :
        /\ opy' = value
        /\ result' = DecimalType_new(opy', NoPrecision)
        /\ opx' = IF IsError(result') THEN opx ELSE result'
        /\ last_op' = "from_pylong"
        /\ errno' = errno_after(result', errno)
        /\ UNCHANGED dflt_rounding

\* values that are held as digit arrays
NextDigits ==
    \/ FromPyLong(DigitArrayInts)
    \/ NewX(BigLiterals, {NoPrecision})
    \/ NewY({PyUnicode(Literal(c, 1)) : c \in {-5, 1, 20}}, {NoPrecision})
    \/ Neg
    \/ Add
    \/ Mul
    \/ NumeratorX

SpecDigits == Init /\ [][NextDigits]_vars
\* ------------------------------------------------------------------------
\* Properties
\* ------------------------------------------------------------------------

\* the value of the Decimal d is ValueNum(d) / ValueDen(d)
ValueNum(d) == Coeff(d.dec.fpdec)

ValueDen(d) == Pow10(FPDEC_DEC_PREC(d.dec.fpdec))

\* a and b have the same value: the same coefficient at the larger precision
SameValue(a, b) ==
    LET p == Max2(FPDEC_DEC_PREC(a.dec.fpdec), FPDEC_DEC_PREC(b.dec.fpdec))
    IN  CoeffAt(a.dec.fpdec, p) = CoeffAt(b.dec.fpdec, p)

SamePrecision(a, b) == FPDEC_DEC_PREC(a.dec.fpdec) = FPDEC_DEC_PREC(b.dec.fpdec)

IsZeroDecimal(d) == Decimal_Check(d) /\ FPDEC_EQ_ZERO(d.dec.fpdec)

\* numerator(x) and denominator(x) as the properties return them
NumeratorOf(d) == Decimal_numerator_get(d.dec).val

DenominatorOf(d) == Decimal_denominator_get(d.dec).val

\* C1: for Decimals x and y with y # 0, divmod(x, y) is a pair (q, r) of an
\* integer q and a Decimal r with q*y + r = x, 0 <= sign(y)*r < |y| and
\* q = floor(x/y)
C1_DivmodContract ==
    (last_op = "divmod" /\ Decimal_Check(opy) /\ ~IsZeroDecimal(opy)) =>
        /\ result.t = "tuple"
        /\ result.rt = "Decimal"
        /\ LET p == Max2(FPDEC_DEC_PREC(opx.dec.fpdec),
                         FPDEC_DEC_PREC(opy.dec.fpdec))
               cx == CoeffAt(opx.dec.fpdec, p)
               cy == CoeffAt(opy.dec.fpdec, p)
               q == result.i
           IN  /\ FPDEC_DEC_PREC(result.dec.fpdec) <= p
               /\ q * cy + CoeffAt(result.dec.fpdec, p) = cx
               /\ 0 <= Sgn(cy) * CoeffAt(result.dec.fpdec, p)
               /\ Sgn(cy) * CoeffAt(result.dec.fpdec, p) < Abs(cy)
               /\ q = FloorDiv(cx, cy)

\* a divmod with a negative divisor and a remainder: 1 = -1 * 2 + (-1)
C1_Witness ==
    /\ last_op = "divmod"
    /\ Decimal_Check(opy)
    /\ ValueNum(opx) = 1 /\ ValueDen(opx) = 1
    /\ ValueNum(opy) = -2 /\ ValueDen(opy) = 1
    /\ result.t = "tuple"
    /\ result.i = -1
    /\ ValueNum(result) = -1

\* C2: for every Decimal x, numerator(x) / denominator(x) is the value of x,
\* gcd(numerator(x), denominator(x)) = 1 and denominator(x) >= 1, also when
\* the pair was stored at construction time
C2_RatioInLowestTerms ==
    (last_op \in {"numerator", "denominator"}) =>
        /\ NumeratorOf(opx) * ValueDen(opx) = ValueNum(opx) * DenominatorOf(opx)
        /\ GCD(NumeratorOf(opx), DenominatorOf(opx)) = 1
        /\ DenominatorOf(opx) >= 1
        /\ result.i = (IF last_op = "numerator" THEN NumeratorOf(opx)
                       ELSE DenominatorOf(opx))

\* the ratio of a Decimal made from a string is computed on the first query
C2_Witness ==
    /\ last_op = "denominator"
    /\ ValueNum(opx) = 2 /\ ValueDen(opx) = 100
    /\ result.i = 50
    /\ opx.dec.numerator = <<1>>

\* C3: for Decimals x and y each of the six comparisons is the comparison of
\* the mathematical values, whatever the precisions and representations, and
\* is the comparison of numerator(x)*denominator(y) with
\* numerator(y)*denominator(x)
C3_CompareByValue ==
    (last_op \in CompareOps /\ Decimal_Check(opy)) =>
        /\ result.t = "bool"
        /\ result.b = Py_RICHCOMPARE(ValueNum(opx) * ValueDen(opy),
                                     ValueNum(opy) * ValueDen(opx), last_op)
        /\ result.b = Py_RICHCOMPARE(NumeratorOf(opx) * DenominatorOf(opy),
                                     NumeratorOf(opy) * DenominatorOf(opx),
                                     last_op)

\* a digit array compared with a shifted int of another precision
C3_Witness ==
    /\ last_op = "Py_GT"
    /\ Decimal_Check(opy)
    /\ FPDEC_IS_DYN_ALLOC(opx.dec.fpdec)
    /\ ~FPDEC_IS_DYN_ALLOC(opy.dec.fpdec)
    /\ FPDEC_DEC_PREC(opy.dec.fpdec) = 2
    /\ result.b

\* x and y are Decimals whose hashes were taken
HashedBoth ==
    /\ Decimal_Check(opy)
    /\ opx.dec.hash # -1
    /\ opy.dec.hash # -1

\* the host's hash of numerator(d) when denominator(d) = 1, else of the
\* fraction numerator(d) / denominator(d)
HostHashOfRatio(d) ==
    IF DenominatorOf(d) = 1 THEN PyObject_Hash(PyLong(NumeratorOf(d)))
    ELSE PyObject_Hash(Fraction(NumeratorOf(d), DenominatorOf(d)))

\* C4 (as amended): Decimals of equal value have equal hashes, whatever their
\* precisions and representations; hash(x) is the host's hash of the integer
\* numerator(x) when denominator(x) = 1 and of the fraction
\* numerator(x)/denominator(x) otherwise; the hash slot, once set, holds that
\* hash and is what a call returns
C4_HashRespectsEquality ==
    /\ (HashedBoth /\ SameValue(opx, opy)) => opx.dec.hash = opy.dec.hash
    /\ opx.dec.hash # -1 => opx.dec.hash = HostHashOfRatio(opx)
    /\ (Decimal_Check(opy) /\ opy.dec.hash # -1) =>
            opy.dec.hash = HostHashOfRatio(opy)
    /\ last_op = "hash" => (result.t = "int" /\ result.i = opx.dec.hash)
    /\ last_op = "hash_y" => (result.t = "int" /\ result.i = opy.dec.hash)

\* equal values of different precision, hashed alike: 1.00 and 2/2
C4_Witness ==
    /\ HashedBoth
    /\ last_op = "hash"
    /\ SameValue(opx, opy)
    /\ ~SamePrecision(opx, opy)
    /\ ValueNum(opy) = 1
    /\ opx.dec.hash = opy.dec.hash

\* C4: hash(x) = hash(y) if and only if x = y
C4_HashIffEqual ==
    HashedBoth => (opx.dec.hash = opy.dec.hash <=> SameValue(opx, opy))

\* s is an optional '-', digits and, when p > 0, a '.' and exactly p digits
IsCanonicalLiteral(s, p) ==
    LET a == IF s # <<>> /\ s[1] = "-" THEN 2 ELSE 1
        ni == CountDigits(s, a)
    IN  /\ ni >= 1
        /\ IF p = 0 THEN Len(s) = a + ni - 1
           ELSE /\ Len(s) = a + ni + p
                /\ s[a + ni] = "."
                /\ CountDigits(s, a + ni + 1) = p

\* C5: str(x) is an optional '-', integer digits and, when precision(x) > 0,
\* a '.' and exactly precision(x) fractional digits, and Decimal(str(x)) has
\* the value and the precision of x
C5_StrRoundTrip ==
    /\ last_op = "str" =>
            /\ result.t = "str"
            /\ IsCanonicalLiteral(result.s, FPDEC_DEC_PREC(opx.dec.fpdec))
            /\ (result.s[1] = "-") <=> (ValueNum(opx) < 0)
    /\ last_op = "parse" =>
            /\ Decimal_Check(result)
            /\ SameValue(result, opx)
            /\ SamePrecision(result, opx)

\* the string of a digit array with trailing fractional zeros, read back
C5_Witness ==
    /\ last_op = "parse"
    /\ Decimal_Check(result)
    /\ FPDEC_IS_DYN_ALLOC(opx.dec.fpdec)
    /\ FPDEC_DEC_PREC(opx.dec.fpdec) = 2
    /\ SameValue(result, opx)
    /\ SamePrecision(result, opx)

\* the value argument of the repr s
ReprValueOf(s) == ReprValue(s, 9, ReprValueEnd(s, 9))

\* the number of fractional digits of the value argument v of a repr
ReprFracDigits(v) ==
    IF v.t = "str" /\ strrchr_point(v.s, Len(v.s)) # 0
    THEN Len(v.s) - strrchr_point(v.s, Len(v.s))
    ELSE 0

\* C6: repr(x) is Decimal(...) around the literal of x without trailing
\* fractional zeros, with a precision argument exactly when the number of
\* fractional digits of that literal differs from precision(x); evaluating
\* it gives a Decimal with the value and the precision of x
C6_ReprRoundTrip ==
    /\ last_op = "repr" =>
            /\ result.t = "str"
            /\ SubSeq(result.s, 1, 8) = <<"D", "e", "c", "i", "m", "a", "l", "(">>
            /\ result.s[Len(result.s)] = ")"
            /\ ReprFracDigits(ReprValueOf(result.s)) # 0 =>
                    ReprValueOf(result.s).s[Len(ReprValueOf(result.s).s)] # "0"
            /\ (ReprPrecision(result.s, ReprValueEnd(result.s, 9)) # NoPrecision)
                    <=> (ReprFracDigits(ReprValueOf(result.s))
                            # FPDEC_DEC_PREC(opx.dec.fpdec))
    /\ last_op = "eval" =>
            /\ Decimal_Check(result)
            /\ SameValue(result, opx)
            /\ SamePrecision(result, opx)

\* a repr with a precision argument, evaluated: 0.10 from Decimal('0.1', 2)
C6_Witness ==
    /\ last_op = "eval"
    /\ Decimal_Check(result)
    /\ ValueNum(opx) = 10
    /\ FPDEC_DEC_PREC(opx.dec.fpdec) = 2
    /\ SameValue(result, opx)
    /\ SamePrecision(result, opx)

\* C7: for Decimals x and y, x + y and x - y are Decimals of precision
\* max(precision(x), precision(y)), x * y is a Decimal of precision
\* precision(x) + precision(y), and each is the exact sum, difference or
\* product
C7_ResultPrecision ==
    (last_op \in {"add", "sub", "mul"} /\ Decimal_Check(opy)) =>
        LET px == FPDEC_DEC_PREC(opx.dec.fpdec)
            py == FPDEC_DEC_PREC(opy.dec.fpdec)
            p == IF last_op = "mul" THEN px + py ELSE Max2(px, py)
        IN  /\ Decimal_Check(result)
            /\ FPDEC_DEC_PREC(result.dec.fpdec) = p
            /\ ValueNum(result) =
                    CASE last_op = "add" ->
                            CoeffAt(opx.dec.fpdec, p) + CoeffAt(opy.dec.fpdec, p)
                      [] last_op = "sub" ->
                            CoeffAt(opx.dec.fpdec, p) - CoeffAt(opy.dec.fpdec, p)
                      [] OTHER -> ValueNum(opx) * ValueNum(opy)

\* a product within the precision limit: 0.2 * 0.02 = 0.004
C7_Witness ==
    /\ last_op = "mul"
    /\ Decimal_Check(opy)
    /\ Decimal_Check(result)
    /\ FPDEC_DEC_PREC(opx.dec.fpdec) = 1
    /\ FPDEC_DEC_PREC(opy.dec.fpdec) = 2
    /\ FPDEC_DEC_PREC(result.dec.fpdec) = FPDEC_MAX_DEC_PREC
    /\ ValueNum(result) = 4

\* b is the negation of a
IsNegationOf(b, a) ==
    LET p == Max2(FPDEC_DEC_PREC(a.dec.fpdec), FPDEC_DEC_PREC(b.dec.fpdec))
    IN  CoeffAt(b.dec.fpdec, p) = -CoeffAt(a.dec.fpdec, p)

\* the integer 1 or a Decimal of value 1
IsOne(obj) ==
    \/ PyLong_Check(obj) /\ obj.i = 1
    \/ Decimal_Check(obj) /\ ValueNum(obj) = ValueDen(obj)

\* C8: -x has the precision of x and the opposite sign (zero stays zero);
\* x + (-x) = 0, x - x = 0, x * 1 = x and x / 1 = x
C8_Identities ==
    /\ last_op = "neg" =>
            /\ Decimal_Check(result)
            /\ SamePrecision(result, opx)
            /\ ValueNum(result) = -ValueNum(opx)
            /\ FPDEC_SIGN(result.dec.fpdec) = -FPDEC_SIGN(opx.dec.fpdec)
    /\ (last_op = "add" /\ Decimal_Check(opy) /\ IsNegationOf(opy, opx)) =>
            IsZeroDecimal(result)
    /\ (last_op = "sub" /\ Decimal_Check(opy) /\ SameValue(opy, opx)) =>
            IsZeroDecimal(result)
    /\ (last_op \in {"mul", "truediv"} /\ IsOne(opy)) =>
            (Decimal_Check(result) /\ SameValue(result, opx))

\* x + (-x) for the negation of x stored as y
C8_Witness ==
    /\ last_op = "add"
    /\ Decimal_Check(opy)
    /\ ValueNum(opx) = LLONG_MAX + 1
    /\ IsNegationOf(opy, opx)
    /\ IsZeroDecimal(result)

\* the denominator of n/d in lowest terms divides a power of ten
DividesPowerOfTen(n, d) == Pow10Exp(Abs(d) \div GCD(n, d), 0) # -1

\* C9: for Decimals x and y with y # 0, x / y is a Decimal or a fraction
\* equal to the exact quotient; it is a Decimal only when the denominator of
\* x/y in lowest terms divides a power of ten, and a fraction otherwise
C9_ExactDivision ==
    (last_op = "truediv" /\ Decimal_Check(opy) /\ ~IsZeroDecimal(opy)) =>
        LET n == ValueNum(opx) * ValueDen(opy)
            d == ValueNum(opy) * ValueDen(opx)
        IN  /\ result.t \in {"Decimal", "Fraction"}
            /\ result.t = "Decimal" =>
                    /\ ValueNum(result) * d = n * ValueDen(result)
                    /\ DividesPowerOfTen(n, d)
            /\ result.t = "Fraction" => result.num * d = n * result.den
            /\ ~DividesPowerOfTen(n, d) => result.t = "Fraction"

\* 1 / 16385 as a fraction: 16385 = 5 * 29 * 113 divides no power of ten
C9_Witness ==
    /\ last_op = "truediv"
    /\ Decimal_Check(opy)
    /\ ValueNum(opx) = 1 /\ ValueDen(opx) = 1
    /\ ValueNum(opy) = U128_LIMIT + 1
    /\ result.t = "Fraction"
    /\ result.num = 1
    /\ result.den = U128_LIMIT + 1

\* a zero Decimal of any precision, or the integer 0
IsZeroDivisor(obj) == IsZeroDecimal(obj) \/ (PyLong_Check(obj) /\ obj.i = 0)

\* C10: x / y, x // y, x % y and divmod(x, y) with a zero divisor y raise
\* ZeroDivisionError and return no value
C10_ZeroDivisor ==
    (last_op \in {"truediv", "floordiv", "mod", "divmod"}
        /\ IsZeroDivisor(opy)) =>
            (IsError(result) /\ result.err = "ZeroDivisionError")

\* divmod of a digit array by a zero of precision 2
C10_Witness ==
    /\ last_op = "divmod"
    /\ FPDEC_IS_DYN_ALLOC(opx.dec.fpdec)
    /\ IsZeroDecimal(opy)
    /\ FPDEC_DEC_PREC(opy.dec.fpdec) = 2
    /\ IsError(result)


\* ------------------------------------------------------------------------
\* Precision limit, rounding, default rounding mode
\* ------------------------------------------------------------------------

\* the product of two Decimals whose precisions add up beyond the limit
MulBeyondLimit ==
    /\ last_op = "mul"
    /\ Decimal_Check(opx)
    /\ Decimal_Check(opy)
    /\ FPDEC_DEC_PREC(opx.dec.fpdec) + FPDEC_DEC_PREC(opy.dec.fpdec)
            > FPDEC_MAX_DEC_PREC

\* C11: multiplying Decimals x and y with precision(x) + precision(y)
\* greater than the maximal precision fails with the precision-limit error
\* (a ValueError); no product is returned
C11_MulPrecisionLimit ==
    MulBeyondLimit => (IsError(result) /\ result.err = "ValueError")

\* such a multiplication has returned a value: 0.02 * 0.02
C11_Witness ==
    /\ MulBeyondLimit
    /\ ~IsError(result)
    /\ ValueNum(opx) = 2 /\ FPDEC_DEC_PREC(opx.dec.fpdec) = 2
    /\ ValueNum(opy) = 2 /\ FPDEC_DEC_PREC(opy.dec.fpdec) = 2

\* the multiple of 10^-p next to n / d (d > 0) that the claim's description
\* of the rounding mode selects, as a coefficient at precision p
RoundedCoeff(n, d, p, mode) ==
    LET N == n * Pow10(p)
        lo == FloorDiv(N, d)
        hi == lo + 1
        rem == N - lo * d
        tozero == IF N >= 0 THEN lo ELSE hi
        away == IF N >= 0 THEN hi ELSE lo
        nearest(tie) == IF 2 * rem < d THEN lo
                        ELSE IF 2 * rem > d THEN hi ELSE tie
    IN  IF rem = 0 THEN lo
        ELSE CASE mode = FPDEC_ROUND_CEILING -> hi
               [] mode = FPDEC_ROUND_FLOOR -> lo
               [] mode = FPDEC_ROUND_DOWN -> tozero
               [] mode = FPDEC_ROUND_UP -> away
               [] mode = FPDEC_ROUND_HALF_UP -> nearest(away)
               [] mode = FPDEC_ROUND_HALF_DOWN -> nearest(tozero)
               [] mode = FPDEC_ROUND_HALF_EVEN ->
                    nearest(IF lo % 2 = 0 THEN lo ELSE hi)
               [] mode = FPDEC_ROUND_05UP ->
                    IF Abs(tozero) % 10 \in {0, 5} THEN away ELSE tozero

\* C12: a value adjusted to a precision p (Decimal(x, p), Decimal(r, p) for
\* a rational r) is the neighbouring multiple of 10^-p selected by the
\* default rounding mode: ceiling, floor, down, up, half_up, half_down,
\* half_even, 05up; when nothing non-zero is dropped it is the exact value
C12_RoundingModes ==
    /\ last_op = "adjust" =>
        /\ Decimal_Check(result)
        /\ FPDEC_DEC_PREC(result.dec.fpdec) = opy.i
        /\ Coeff(result.dec.fpdec) =
                RoundedCoeff(ValueNum(opx), ValueDen(opx), opy.i,
                             dflt_rounding)
    /\ last_op = "convert" =>
        /\ Decimal_Check(result)
        /\ Coeff(result.dec.fpdec) =
                RoundedCoeff(opy.num, opy.den,
                             FPDEC_DEC_PREC(result.dec.fpdec), dflt_rounding)

\* 0.51 adjusted to one fractional digit under 05up: 0.6
C12_Witness ==
    /\ last_op = "adjust"
    /\ dflt_rounding = FPDEC_ROUND_05UP
    /\ ValueNum(opx) = 51 /\ FPDEC_DEC_PREC(opx.dec.fpdec) = 2
    /\ opy.i = 1
    /\ Coeff(result.dec.fpdec) = 6

\* C13: x.__round__(n) for an integer n >= 0 returns the Decimal equal to x
\* rounded to n fractional digits under the default rounding mode (1.5
\* rounded to 0 digits is 2 under half_even and 1 under half_down)
C13_RoundToDigits ==
    last_op = "round" =>
        /\ Decimal_Check(result)
        /\ FPDEC_DEC_PREC(result.dec.fpdec) = opy.i
        /\ Coeff(result.dec.fpdec) =
                RoundedCoeff(ValueNum(opx), ValueDen(opx), opy.i,
                             dflt_rounding)

\* Decimal("1.5").__round__(0) was called under half_down
C13_Witness ==
    /\ last_op = "round"
    /\ dflt_rounding = FPDEC_ROUND_HALF_DOWN
    /\ ValueNum(opx) = 15 /\ FPDEC_DEC_PREC(opx.dec.fpdec) = 1
    /\ opy.i = 0
    /\ result = Py_NotImplemented

\* C14: the default rounding mode starts as half_even; a set call with one
\* of the eight modes makes that mode the default, a set call with any
\* other argument fails and leaves the default unchanged, nothing else
\* changes it, and a get call returns it
C14_DefaultRoundingMode ==
    /\ dflt_rounding = FPDEC_ROUND_HALF_EVEN
    /\ [][/\ (last_op' = "set_rounding" /\ opy' \in EnumRounding) =>
                (~IsError(result') /\ dflt_rounding' = opy'.i)
          /\ (last_op' = "set_rounding" /\ opy' \notin EnumRounding) =>
                (IsError(result') /\ dflt_rounding' = dflt_rounding)
          /\ last_op' # "set_rounding" => dflt_rounding' = dflt_rounding
          /\ last_op' = "get_rounding" =>
                result' = PyRounding(dflt_rounding)]_vars

\* a set call with None that has changed the default mode
C14_Witness ==
    /\ last_op = "set_rounding"
    /\ opy = Py_None
    /\ IsError(result)
    /\ dflt_rounding \notin 1..FPDEC_MAX_ROUNDING_MODE

\* the precision of a Decimal object
PrecisionOf(obj) == FPDEC_DEC_PREC(obj.dec.fpdec)

\* C15: every Decimal that exists has 0 <= precision <= MAX_DEC_PREC, and
\* a constructor call with an explicit precision outside this range fails
C15_PrecisionRange ==
    /\ \A obj \in {opx, opy, result} :
            Decimal_Check(obj) => PrecisionOf(obj) \in 0..FPDEC_MAX_DEC_PREC
    /\ (last_op = "new_prec" /\ opy.i \notin 0..FPDEC_MAX_DEC_PREC) =>
            IsError(result)

\* a constructor call with the precision MAX_DEC_PREC + 1 that has failed,
\* after one that has made a value of the precision MAX_DEC_PREC
C15_Witness ==
    /\ last_op = "new_prec"
    /\ opy.i = FPDEC_MAX_DEC_PREC + 1
    /\ IsError(result)
    /\ Decimal_Check(opx)
    /\ PrecisionOf(opx) = FPDEC_MAX_DEC_PREC

\* the magnitude held by a body: the 128-bit integer of a shifted int, the
\* digits of a digit array
MagnitudeOf(f) == IF f.dyn_alloc THEN FromDigits(f.digits) ELSE U128(f)

\* sign is +1, -1 or 0, and 0 exactly for a zero magnitude, which a digit
\* array never has
SignOk(f) ==
    /\ f.sign \in {1, -1, 0}
    /\ f.sign = 0 <=> MagnitudeOf(f) = 0
    /\ f.dyn_alloc => f.sign # 0

\* C16: in every Decimal the sign is in {+1, -1, 0} and is 0 iff the value
\* is zero (a shifted int of magnitude 0 has sign 0, a digit array never
\* has sign 0); negating zero returns zero, and abs(x) never has sign -1
C16_SignInvariant ==
    /\ \A obj \in {opx, opy, result} :
            Decimal_Check(obj) => SignOk(obj.dec.fpdec)
    /\ (last_op = "neg" /\ MagnitudeOf(opx.dec.fpdec) = 0) =>
            (Decimal_Check(result) /\ MagnitudeOf(result.dec.fpdec) = 0
             /\ result.dec.fpdec.sign = 0)
    /\ last_op = "abs" =>
            (Decimal_Check(result) /\ result.dec.fpdec.sign # -1)

\* abs of a negative digit-array value
C16_Witness ==
    /\ last_op = "abs"
    /\ opx.dec.fpdec.dyn_alloc
    /\ opx.dec.fpdec.sign = -1
    /\ result.dec.fpdec.dyn_alloc
    /\ result.dec.fpdec.sign = 1

\* sign(x) * floor(|x|) of the Decimal x
TruncOf(d) ==
    Sgn(ValueNum(d)) * (Abs(ValueNum(d)) \div ValueDen(d))

\* C17: for every Decimal x, in either representation, int(x) is the
\* integer sign(x) * floor(|x|)
C17_ToInt ==
    last_op = "int" => (PyLong_Check(result) /\ result.i = TruncOf(opx))

\* int(x) of a digit-array value with fractional digits
C17_Witness ==
    /\ last_op = "int"
    /\ opx.dec.fpdec.dyn_alloc
    /\ opx.dec.fpdec.exp < 0
    /\ PyLong_Check(result)
    /\ result.i = TruncOf(opx)
    /\ result.i # 0

\* x holds the value Decimal(n) makes of the host integer n
IsFromInteger(x, n) ==
    /\ PyLong_Check(n)
    /\ Decimal_Check(x)
    /\ x.dec.fpdec = DecimalType_new(n, NoPrecision).dec.fpdec

\* a Decimal of precision 0 held as a digit array
IsBigInteger(x) ==
    /\ Decimal_Check(x)
    /\ x.dec.fpdec.dyn_alloc
    /\ FPDEC_DEC_PREC(x.dec.fpdec) = 0

\* C18: for every integer n, Decimal(n) has the value n and the precision
\* 0, int(Decimal(n)) is n and Decimal(n) == n; the difference of two
\* digit-array integers is exact
C18_IntegerRoundTrip ==
    /\ last_op = "from_integer" =>
            (Decimal_Check(result) /\ PrecisionOf(result) = 0
             /\ ValueNum(result) = opy.i)
    /\ (last_op = "int" /\ IsFromInteger(opx, opy)) => result = opy
    /\ (last_op = "Py_EQ" /\ IsFromInteger(opx, opy)) =>
            result = PyBool(TRUE)
    /\ (last_op = "sub" /\ IsBigInteger(opx) /\ IsBigInteger(opy)) =>
            (Decimal_Check(result) /\ PrecisionOf(result) = 0
             /\ ValueNum(result) = ValueNum(opx) - ValueNum(opy))

\* the difference 1 of two digit-array integers
C18_Witness ==
    /\ last_op = "sub"
    /\ IsBigInteger(opx)
    /\ IsBigInteger(opy)
    /\ Decimal_Check(result)
    /\ ~result.dec.fpdec.dyn_alloc
    /\ ValueNum(result) = 1

\* C19: as_tuple(x) is (s, c, e) with s the sign bit (0 for a non-negative
\* x, 1 for a negative one), c a non-negative integer, e the negated
\* precision plus the number of trailing zeros trimmed from the
\* coefficient, and (-1)^s * c * 10^e the value of x
C19_AsTuple ==
    last_op = "as_tuple" =>
        LET s == result.i
            c == result.num
            e == result.den
            trimmed == e + PrecisionOf(opx)
        IN  /\ result.t = "tuple"
            /\ s \in {0, 1}
            /\ s = 1 <=> ValueNum(opx) < 0
            /\ c >= 0
            /\ trimmed >= 0
            /\ c * Pow10(trimmed) = Abs(ValueNum(opx))

\* as_tuple of a negative digit-array value whose coefficient is trimmed
C19_Witness ==
    /\ last_op = "as_tuple"
    /\ opx.dec.fpdec.dyn_alloc
    /\ result.i = -1
    /\ result.den + PrecisionOf(opx) > 0
    /\ result.num * Pow10(result.den + PrecisionOf(opx)) = Abs(ValueNum(opx))

\* 10^m <= |x| < 10^(m + 1) for the Decimal x
IsMagnitudeOf(m, x) ==
    LET n == Abs(ValueNum(x))
        d == ValueDen(x)
    IN  IF m >= 0
        THEN Pow10(m) * d <= n /\ n < Pow10(m + 1) * d
        ELSE d <= n * Pow10(-m) /\ n * Pow10(-m - 1) < d

\* C20: in any state of the process, also after operations that failed,
\* magnitude(x) is the largest m with 10^m <= |x| for a non-zero x, and
\* fails iff x is zero
C20_Magnitude ==
    last_op = "magnitude" =>
        IF ValueNum(opx) = 0 THEN IsError(result)
        ELSE PyLong_Check(result) /\ IsMagnitudeOf(result.i, opx)

\* the magnitude of a value between 0.1 and 1 asked for after a failure
C20_Witness ==
    /\ last_op = "magnitude"
    /\ errno # FPDEC_OK
    /\ IsMagnitudeOf(-1, opx)
    /\ IsError(result)

\* ------------------------------------------------------------------------
\* Claims C21 .. C30
\* ------------------------------------------------------------------------

\* the number a sequence of digit characters writes (0 for none)
RECURSIVE DigitsValue(_)
DigitsValue(ds) ==
    IF ds = <<>> THEN 0
    ELSE 10 * DigitsValue(SubSeq(ds, 1, Len(ds) - 1))
         + (CHOOSE v \in 0..9 : DigitChars[v + 1] = ds[Len(ds)])

\* the exponent E of the parts g
ExponentOf(g) ==
    (IF g.esign = <<"-">> THEN -1 ELSE 1) * DigitsValue(g.exp)

\* the precision max(0, len(F) - E) of the parts g
LiteralPrecision(g) == Max2(0, Len(g.frac) - ExponentOf(g))

\* the Decimal d has the value sign * (I * 10^len(F) + F) * 10^(E - len(F))
\* and the precision max(0, len(F) - E) of the parts g
IsValueOfLiteral(d, g) ==
    /\ Decimal_Check(d)
    /\ PrecisionOf(d) = LiteralPrecision(g)
    /\ ValueNum(d) =
           (IF g.sign = <<"-">> THEN -1 ELSE 1)
           * (DigitsValue(g.int) * Pow10(Len(g.frac)) + DigitsValue(g.frac))
           * Pow10(ExponentOf(g) - Len(g.frac) + LiteralPrecision(g))

\* the string s is outside the grammar and the construction has failed
\* with the invalid-literal error
InvalidLiteralFails(s) ==
    (\A g \in LiteralParts : LiteralOf(g) # s) =>
        (IsError(result) /\ result.err = "ValueError"
         /\ result.rc = FPDEC_INVALID_DECIMAL_LITERAL)

HasValue(r, n, d) ==
    IF Decimal_Check(r) THEN ValueNum(r) * d = n * ValueDen(r)
    ELSE r.t \in {"Fraction", "Rational"} /\ r.num * d = n * r.den

\* C22: pow(x, 0) is one; for n > 0 pow(x, n) is a Decimal equal to the
\* n-fold product of x; for n < 0 and x # 0 pow(x, n) is the reciprocal of
\* pow(x, -n), a Decimal when that reciprocal is a finite decimal and a
\* rational otherwise
C22_Power ==
    (last_op = "pow" /\ PyLong_Check(opy)) =>
        LET n == opy.i
            vn == ValueNum(opx)
            vd == ValueDen(opx)
        IN  /\ n = 0 => (Decimal_Check(result) /\ HasValue(result, 1, 1))
            /\ n > 0 =>
                   (Decimal_Check(result) /\ HasValue(result, vn ^ n, vd ^ n))
            /\ (n < 0 /\ vn # 0) =>
                   /\ HasValue(result, vd ^ (-n), vn ^ (-n))
                   /\ Decimal_Check(result) <=>
                          DividesPowerOfTen(vd ^ (-n), vn ^ (-n))

\* a negative power of a value that is not zero, returned as a Decimal
C22_Witness ==
    /\ last_op = "pow"
    /\ PyLong_Check(opy)
    /\ opy.i = -2
    /\ ValueNum(opx) = 5 /\ ValueDen(opx) = 10
    /\ Decimal_Check(result)
    /\ HasValue(result, 4, 1)

\* a comparison with == or != has just been made and y is a complex number
ComparedWithComplex ==
    last_op \in {"Py_EQ", "Py_NE"} /\ opy.t = "complex"

\* x has the value of the real part of the complex number c
EqualsRealPart(x, c) ==
    c.b /\ ValueNum(x) * c.den = c.num * ValueDen(x)

\* C23: for a complex number c with non-zero imaginary part x == c is false
\* and x != c is true, and no error is raised; with a zero imaginary part the
\* result is that of comparing x with the real part of c
C23_ComplexEquality ==
    ComparedWithComplex =>
        /\ ~IsError(result)
        /\ opy.i # 0 => result = PyBool(last_op = "Py_NE")
        /\ opy.i = 0 =>
              result = PyBool((last_op = "Py_EQ") = EqualsRealPart(opx, opy))

\* x = 2 has been compared with 2 + 2j, and x != y is true
C23_Witness ==
    /\ ComparedWithComplex
    /\ last_op = "Py_NE"
    /\ opy = PyComplex(2, 2, 1, TRUE)
    /\ ValueNum(opx) = 2 * ValueDen(opx)
    /\ result = PyBool(TRUE)

\* the Decimal a is still in existence as b: sign, precision and body are
\* the same, and a memoised numerator, denominator or hash that was set has
\* kept its value
SameDecimal(a, b) ==
    Decimal_Check(a) =>
        /\ Decimal_Check(b)
        /\ b.dec.fpdec = a.dec.fpdec
        /\ a.dec.numerator # <<>> => b.dec.numerator = a.dec.numerator
        /\ a.dec.denominator # <<>> => b.dec.denominator = a.dec.denominator
        /\ a.dec.hash # -1 => b.dec.hash = a.dec.hash

BinaryMethods == {"add", "sub", "mul", "mod", "divmod", "floordiv", "truediv"}

\* the temporaries of the binary method that has just returned
TemporariesAtReturn ==
    CLEAN_UP(BINOP_temporaries(opx, opy, last_op), last_op)

\* C25: when a binary operator returns, on every exit path, each of its
\* temporaries (the converted operands, the quotient, the remainder) has
\* been reset to zero
C25_TemporariesReset ==
    last_op \in BinaryMethods =>
        \A t \in {"tmp_x", "tmp_y", "q", "r"} :
            TemporariesAtReturn[t] = FPDEC_ZERO

\* x // y has returned an int and the quotient is still held, as a digit
\* array, by the temporary q
C25_Witness ==
    /\ last_op = "floordiv"
    /\ PyLong_Check(result)
    /\ FPDEC_IS_DYN_ALLOC(TemporariesAtReturn.q)

\* the parts of the format specs that are parsed
AllFormatParts == ShortFormatParts \cup LongFormatParts

\* the number a digit string of a format spec denotes is at most SIZE_MAX
FitsSizeT(digits) == DigitsValue(digits) <= SIZE_MAX

\* the strings of the form [[fill]align][sign][0][min_width][,][.precision]
\* [type]
GrammarStrings == {FormatOf(g) : g \in AllFormatParts}

\* those with min_width and precision at most SIZE_MAX
FittingGrammarStrings ==
    {FormatOf(g) :
        g \in {h \in AllFormatParts :
                  FitsSizeT(h.min_width) /\ FitsSizeT(h.precision)}}

\* those with a min_width or a precision greater than SIZE_MAX
OverflowGrammarStrings ==
    {FormatOf(g) :
        g \in {h \in AllFormatParts :
                  ~FitsSizeT(h.min_width) \/ ~FitsSizeT(h.precision)}}

\* a format spec has just been parsed
Parsed == last_op = "parse_format_spec"

\* the spec has type 'n' and the locale has a thousands separator or a
\* decimal point of more than four bytes, no decimal point, or a grouping
\* of five entries or more
LocaleUnfit(s, lc) ==
    /\ Len(s) > 0 /\ s[Len(s)] = "n"
    /\ \/ Len(lc.thousands_sep) > 4
       \/ Len(lc.grouping) >= 5
       \/ Len(lc.decimal_point) \notin 1..4

\* C26 as stated: parse_format_spec returns 0 for exactly the strings of
\* the form [[fill]align][sign][0][min_width][,][.precision][type], and a
\* negative value for every other string
C26_GrammarUnlimited ==
    Parsed =>
        IF opy.s \in GrammarStrings THEN result.rc = 0 ELSE result.rc < 0

\* C26: parse_format_spec returns 0 for the strings of the form
\* [[fill]align][sign][0][min_width][,][.precision][type] whose min_width
\* and precision are at most SIZE_MAX (for type 'n': in a locale whose
\* separators fit), and a negative value for every string not of that form
C26_Grammar ==
    Parsed =>
        /\ (opy.s \in FittingGrammarStrings /\ ~LocaleUnfit(opy.s, result.lc))
              => result.rc = 0
        /\ opy.s \notin GrammarStrings => result.rc < 0

\* the spec "€^ 012,.0%", with every part, has been parsed and accepted
C26_Witness ==
    /\ Parsed
    /\ opy.s = <<"€", "^", " ", "0", "1", "2", ",", ".", "0", "%">>
    /\ result.rc = 0
    /\ result.spec.min_width = 12 /\ result.spec.precision = 0

\* the fill and align the parts g give a spec with min_width > 0: those
\* given; without a given fill, '0' and '=' for the '0' flag; else the
\* default fill and the given or default align
FillAlignOf(g) ==
    IF g.fill # <<>> THEN [fill |-> g.fill, align |-> g.align[1]]
    ELSE IF g.zero # <<>> THEN [fill |-> <<"0">>, align |-> "="]
    ELSE [fill |-> DFLT_FORMAT.fill,
          align |-> IF g.align # <<>> THEN g.align[1]
                    ELSE DFLT_FORMAT.align]

\* the outcomes [zero_width, fill, align, sign, no_sep, no_precision, type]
\* that the parts g allow: fill and align as FillAlignOf for min_width > 0,
\* empty and '<' for min_width = 0; the parts not given have the defaults
OutcomesOf(g) ==
    {o \in [zero_width : BOOLEAN,
            fill : {<<>>, FillAlignOf(g).fill},
            align : {"<", FillAlignOf(g).align},
            sign : {IF g.sign = <<>> THEN "-" ELSE g.sign[1]},
            no_sep : BOOLEAN, no_precision : BOOLEAN,
            type : {IF g.type = <<>> THEN "f" ELSE g.type[1]}] :
        /\ o.zero_width => (o.fill = <<>> /\ o.align = "<")
        /\ ~o.zero_width =>
              (o.fill = FillAlignOf(g).fill /\ o.align = FillAlignOf(g).align)
        /\ g.comma = <<>> => o.no_sep
        /\ g.precision = <<>> => o.no_precision}

\* the format specs with the outcomes their parts allow
FormatOutcomes ==
    UNION {{<<FormatOf(g), o>> : o \in OutcomesOf(g)} : g \in AllFormatParts}

\* the outcome of the parsed spec
OutcomeOf(spec) ==
    [zero_width |-> spec.min_width = 0, fill |-> spec.fill,
     align |-> spec.align, sign |-> spec.sign,
     no_sep |-> spec.thousands_sep = <<>>,
     no_precision |-> spec.precision = SIZE_MAX, type |-> spec.type]

\* C27: in a parsed spec with min_width > 0 a given fill and align stay as
\* given, also before a '0' flag; without a given fill the '0' flag sets
\* fill '0' and align '=', also after a given align. With min_width = 0 the
\* fill is empty and the align '<'. The parts that are not given have the
\* defaults: sign '-', no thousands separator, no precision, type 'f'
C27_FillAlignDefaults ==
    (Parsed /\ result.rc = 0) =>
        <<opy.s, OutcomeOf(result.spec)>> \in FormatOutcomes

\* the empty spec has been parsed: min_width is 0, the fill is a blank and
\* the align '>'
C27_Witness ==
    /\ Parsed /\ result.rc = 0
    /\ opy.s = <<>>
    /\ result.spec.min_width = 0
    /\ result.spec.fill = <<" ">> /\ result.spec.align = ">"

\* C28: parse_format_spec returns -1 for every spec whose min_width or
\* precision is a number greater than SIZE_MAX, and never 0 with the number
\* modulo SIZE_MAX + 1 stored
C28_OverflowRejected ==
    (Parsed /\ opy.s \in OverflowGrammarStrings) => result.rc = -1

\* the spec "200" has been accepted with min_width 200 - (SIZE_MAX + 1)
C28_Witness ==
    /\ Parsed /\ result.rc = 0
    /\ opy.s = <<"2", "0", "0">>
    /\ result.spec.min_width = 200 - (SIZE_MAX + 1)

\* a host integer of more than SHINT_MAX_BITS bits has just been converted
ConvertedBig ==
    /\ last_op = "from_pylong"
    /\ BitLength(Abs(opy.i)) > SHINT_MAX_BITS

\* the most significant digit of a digit array is not zero
TopDigitNonZero(f) ==
    FPDEC_IS_DYN_ALLOC(f) => (f.digits # <<>> /\ f.digits[Len(f.digits)] # 0)

\* C29: for every integer v of more than SHINT_MAX_BITS bits the number of
\* digits PyLong_as_digit_array writes is at most n_digits_needed of the
\* bit length, the size of the buffer; and the value built from the buffer
\* is v, with a most significant digit that is not zero, also when the
\* buffer has unused zero digits at the top
C29_DigitBuffer ==
    ConvertedBig =>
        /\ n_digits_written(Abs(opy.i))
              <= n_digits_needed(BitLength(Abs(opy.i)))
        /\ Decimal_Check(result)
        /\ ValueNum(result) = opy.i /\ ValueDen(result) = 1
        /\ TopDigitNonZero(result.dec.fpdec)

\* an integer of 20 bits has been converted: three digits were written to a
\* buffer of four, and the value is held as a digit array
C29_Witness ==
    /\ ConvertedBig
    /\ opy.i = 2^19 + 1
    /\ n_digits_written(opy.i) = 3
    /\ n_digits_needed(BitLength(opy.i)) = 4
    /\ FPDEC_IS_DYN_ALLOC(result.dec.fpdec)
    /\ Len(result.dec.fpdec.digits) = 3

\* the digit array f meets what the loop of fpdec_dec_coeff_exp and
\* PyLong_from_digits require: the least significant digit is not zero, so
\* that the loop ends, with a count below DEC_DIGITS_PER_DIGIT; and a
\* coefficient that does not fit 128 bits has more than one digit
StrippingTerminates(f) ==
    FPDEC_IS_DYN_ALLOC(f) =>
        /\ f.digits # <<>> /\ f.digits[1] # 0
        /\ n_trailing_zeros(f.digits[1]) < DEC_DIGITS_PER_DIGIT
        /\ fpdec_as_sign_coeff128_exp(f).rc # 0 => Len(f.digits) > 1

\* C30: for every Decimal held as a digit array the loop of
\* fpdec_dec_coeff_exp that strips the trailing zeros ends with a count of
\* at most DEC_DIGITS_PER_DIGIT - 1, and PyLong_from_digits gets more than
\* one digit: the least significant digit of every digit array is not zero
C30_StrippingTerminates ==
    \A d \in {opx, opy, result} :
        Decimal_Check(d) => StrippingTerminates(d.dec.fpdec)

\* the numerator of x = 1638410 has been taken: the coefficient does not
\* fit 128 bits, and the loop stripped one zero from the least significant
\* digit
C30_Witness ==
    /\ last_op = "numerator"
    /\ FPDEC_IS_DYN_ALLOC(opx.dec.fpdec)
    /\ fpdec_as_sign_coeff128_exp(opx.dec.fpdec).rc # 0
    /\ n_trailing_zeros(opx.dec.fpdec.digits[1]) = 1
    /\ result = PyLong(1638410)
====
